---- MODULE Spec2Model ----
(***************************************************************************)
(* Persistence access layer of bbc-common (package ydb).                   *)
(*                                                                         *)
(* The package exists in two parallel implementations of the same          *)
(* operations: the connection-provider one (pkg/ydb/repository.go, built   *)
(* on GetConnection) and the raw-statement one (second half of             *)
(* pkg/ydb/interface.go).  The variable impl selects the one a behaviour   *)
(* runs; every operation is translated once per implementation.            *)
(*                                                                         *)
(* Three specifications share the variables:                               *)
(*   SpecConn   concurrent callers of GetConnection (sync.Once)            *)
(*   Spec       sequential callers of the repository operations            *)
(*   SpecDedup  concurrent callers running the lookup-then-create          *)
(*              notification de-duplication protocol                       *)
(***************************************************************************)
EXTENDS Integers, Sequences, FiniteSets, TLC

VARIABLES
    impl,                  \* which implementation the build contains
    env,                   \* process environment: YDB_ENDPOINT, YDB_DATABASE
    onceState,             \* sync.Once: "fresh", "running" or "done"
    db,                    \* package variable db (0 is the nil driver)
    initErr,               \* package variable initErr
    endpoint, database,    \* locals of the once.Do closure
    pc,                    \* position of every concurrent caller
    observed,              \* outcomes <<db, initErr>> returned so far
    initCount,             \* times the once.Do closure was entered
    envReads,              \* os.Getenv calls so far
    openCount,             \* ydb.Open calls so far
    users,                 \* table users, keyed by telegram_chat_id
    user_tokens,           \* table user_tokens, keyed by telegram_chat_id
    search_subscriptions,  \* table search_subscriptions, set of rows
    notifications,         \* table notifications, set of rows
    clock,                 \* wall clock read by time.Now()
    nextUuid,              \* ids handed out by uuid.New() so far
    nops,                  \* repository operations called so far
    last,                  \* the last operation: arguments, entity, result
    wk,                    \* concurrent callers: position and locals
    overlap,               \* two lookup-to-create windows overlapped
    tx                     \* the transaction DoTx is running

connVars  == <<env, onceState, db, initErr, endpoint, database,
               initCount, envReads, openCount>>
callVars  == <<pc, observed>>
storeVars == <<users, user_tokens, search_subscriptions, notifications>>
vars == <<impl, env, onceState, db, initErr, endpoint, database, pc, observed,
          initCount, envReads, openCount, users, user_tokens,
          search_subscriptions, notifications, clock, nextUuid, nops, last,
          wk, overlap, tx>>

(***************************************************************************)
(* Bounds of the model.                                                    *)
(***************************************************************************)
NumCallers == 3
MaxOps == 2
MaxClock == 1
MaxUuid == 2
NumWorkers == 2

Impls == {"repository", "interface"}
Callers == 1..NumCallers
ChatIDs == {1, 2}

\* an optional value: <<>> is absent (nil pointer, NULL column), <<v>> present
Null == <<>>
Some(v) == <<v>>

\* A time.Time is [era, off, nsec]: era * 2^31 + off seconds since the Unix
\* epoch (0 <= off < 2^31) and nsec nanoseconds.
\* time.Time{} : January 1, year 1, i.e. Unix second -62135596800
ZeroTime == [era |-> -29, off |-> 141428992, nsec |-> 0]

(***************************************************************************)
(* Connection provider (GetConnection).                                    *)
(***************************************************************************)
NilDriver == 0
EnvValues == {"", "set"}

\* the guard of the closure: endpoint == "" || database == ""
MissingConfigAnd(e, d) == e = "" /\ d = ""
MissingConfig(e, d) == e = "" \/ d = ""

\* sync.Once runs f only for the caller that finds it not started; callers
\* arriving while f runs wait for it
OnceUnlocked(state) == state # "done"
OnceRuns(state) == state = "fresh"

\* the effect of the closure once both settings are read; openOk is the
\* outcome of ydb.Open (it fails when the context is cancelled or the
\* endpoint cannot be reached).  Every successful Open is a new driver.
InitOutcome(e, d, openOk) ==
    IF MissingConfig(e, d)
    THEN [db |-> db, err |-> "ErrMissingConfig", opened |-> 0]
    ELSE IF openOk
         THEN [db |-> openCount + 1, err |-> "nil", opened |-> 1]
         ELSE [db |-> NilDriver, err |-> "ErrOpen", opened |-> 1]

\* --- concurrent callers, one step per shared-memory access ---

\* GetConnection entered: once.Do either returns at once (done), starts the
\* closure (fresh) or blocks (running)
Call(p) ==
    /\ pc[p] = "idle"
    /\ IF onceState = "done"
       THEN /\ pc' = [pc EXCEPT ![p] = "return"]
            /\ UNCHANGED <<onceState, initCount>>
       ELSE /\ OnceRuns(onceState)
            /\ onceState' = "running"
            /\ initCount' = initCount + 1
            /\ pc' = [pc EXCEPT ![p] = "getenv_endpoint"]
    /\ UNCHANGED <<impl, env, db, initErr, endpoint, database, observed,
                   envReads, openCount, storeVars, clock, nextUuid, nops,
                   last, wk, overlap, tx>>

\* endpoint := os.Getenv("YDB_ENDPOINT")
GetenvEndpoint(p) ==
    /\ pc[p] = "getenv_endpoint"
    /\ endpoint' = env.endpoint
    /\ envReads' = envReads + 1
    /\ pc' = [pc EXCEPT ![p] = "getenv_database"]
    /\ UNCHANGED <<impl, env, onceState, db, initErr, database, observed,
                   initCount, openCount, storeVars, clock, nextUuid, nops,
                   last, wk, overlap, tx>>

\* database := os.Getenv("YDB_DATABASE")
GetenvDatabase(p) ==
    /\ pc[p] = "getenv_database"
    /\ database' = env.database
    /\ envReads' = envReads + 1
    /\ pc' = [pc EXCEPT ![p] = "open"]
    /\ UNCHANGED <<impl, env, onceState, db, initErr, endpoint, observed,
                   initCount, openCount, storeVars, clock, nextUuid, nops,
                   last, wk, overlap, tx>>

\* the rest of the closure: the configuration check, ydb.Open, and the
\* return of once.Do
OpenStep(p) ==
    /\ pc[p] = "open"
    /\ \E openOk \in BOOLEAN :
         LET o == InitOutcome(endpoint, database, openOk)
         IN  /\ db' = o.db
             /\ initErr' = o.err
             /\ openCount' = openCount + o.opened
    /\ onceState' = "done"
    /\ pc' = [pc EXCEPT ![p] = "return"]
    /\ UNCHANGED <<impl, env, endpoint, database, observed, initCount,
                   envReads, storeVars, clock, nextUuid, nops, last, wk,
                   overlap, tx>>

\* return db, initErr
Return(p) ==
    /\ pc[p] = "return"
    /\ observed' = observed \cup {<<db, initErr>>}
    /\ pc' = [pc EXCEPT ![p] = "idle"]
    /\ UNCHANGED <<impl, connVars, storeVars, clock, nextUuid, nops, last,
                   wk, overlap, tx>>

\* the process changes a setting (os.Setenv) at any moment
SetEnv ==
    /\ \E e \in EnvValues, d \in EnvValues :
         /\ [endpoint |-> e, database |-> d] # env
         /\ env' = [endpoint |-> e, database |-> d]
    /\ UNCHANGED <<impl, onceState, db, initErr, endpoint, database, callVars,
                   initCount, envReads, openCount, storeVars, clock, nextUuid,
                   nops, last, wk, overlap, tx>>

\* no transaction: DoTx has not been called
NoTx == [pc |-> "idle", began |-> FALSE, buf |-> {}, fn |-> "none",
         committed |-> FALSE, rollbacks |-> 0, ret |-> "none",
         attempts |-> 0]

NoLast == [op |-> "none", key |-> Null, arg |-> Null, ent |-> Null,
           err |-> "nil", val |-> Null, prev |-> Null, fail |-> FALSE,
           now |-> ZeroTime]

InitConnVars ==
    /\ env \in [endpoint : EnvValues, database : EnvValues]
    /\ onceState = "fresh"
    /\ db = NilDriver
    /\ initErr = "nil"
    /\ endpoint = ""
    /\ database = ""
    /\ initCount = 0
    /\ envReads = 0
    /\ openCount = 0

InitConn ==
    /\ impl = "repository"
    /\ InitConnVars
    /\ pc = [p \in Callers |-> "idle"]
    /\ observed = {}
    /\ users = [c \in ChatIDs |-> Null]
    /\ user_tokens = [c \in ChatIDs |-> Null]
    /\ search_subscriptions = {}
    /\ notifications = {}
    /\ clock = 0
    /\ nextUuid = 0
    /\ nops = 0
    /\ last = NoLast
    /\ wk = <<>>
    /\ overlap = FALSE
    /\ tx = NoTx

NextConn ==
    \/ \E p \in Callers : Call(p)
    \/ \E p \in Callers : GetenvEndpoint(p)
    \/ \E p \in Callers : GetenvDatabase(p)
    \/ \E p \in Callers : OpenStep(p)
    \/ \E p \in Callers : Return(p)
    \/ SetEnv

SpecConn == InitConn /\ [][NextConn]_vars

(***************************************************************************)
(* C1: the initialization body of GetConnection runs at most once for any  *)
(* interleaving of concurrent first callers, and every caller, concurrent  *)
(* or later, is handed the same outcome: the driver and error the one run  *)
(* of the body left behind.                                                *)
(***************************************************************************)
C1_InitOnceSameOutcome ==
    /\ initCount <= 1
    /\ Cardinality(observed) <= 1
    /\ \A o \in observed : onceState = "done" /\ o = <<db, initErr>>
    /\ \A p \in Callers : pc[p] = "return" => onceState = "done"

\* three callers raced through once.Do, one of them had returned before,
\* and the shared outcome is a driver
C1_Witness ==
    /\ \A p \in Callers : pc[p] = "return"
    /\ observed = {<<db, "nil">>}
    /\ db # NilDriver

(***************************************************************************)
(* C2: when the endpoint or the database setting read by the first call is *)
(* empty, the outcome is ErrMissingConfig, and it stays the outcome of     *)
(* every later call: the settings are read once each, no connection is     *)
(* ever opened, even after the settings have been set.                     *)
(***************************************************************************)
C2_MissingConfigCached ==
    /\ (onceState = "done" /\ (endpoint = "" \/ database = ""))
          => initErr = "ErrMissingConfig"
    /\ initErr = "ErrMissingConfig"
          => /\ openCount = 0
             /\ envReads = 2
             /\ db = NilDriver
             /\ observed \subseteq {<<NilDriver, "ErrMissingConfig">>}
             /\ \A p \in Callers : pc[p] \in {"idle", "return"}

\* the failure is handed out again after both settings were set
C2_Witness ==
    /\ initErr = "ErrMissingConfig"
    /\ env = [endpoint |-> "set", database |-> "set"]
    /\ observed = {<<NilDriver, "ErrMissingConfig">>}
    /\ \E p \in Callers : pc[p] = "return"

(***************************************************************************)
(* Value codec.                                                            *)
(*                                                                         *)
(* A time.Time is [era, off, nsec]: era * 2^31 + off seconds since the     *)
(* Unix epoch (0 <= off < 2^31) and nsec nanoseconds.  uint32(t.Unix())    *)
(* keeps off and the lowest bit of era.                                    *)
(***************************************************************************)
IsZero(t) == t = ZeroTime

\* time.Now() at the current clock reading (nanosecond resolution)
Now == [era |-> 0, off |-> 1700000000 + clock, nsec |-> 123456789]

\* types.DatetimeValue(uint32(t.Unix())): seconds, truncated to 32 bits
DatetimeValue(t) == [era |-> t.era % 2, off |-> t.off]
\* time.Unix(int64(v), 0), also the scan of a Datetime column into time.Time
TimeFromDatetime(v) == [era |-> v.era, off |-> v.off, nsec |-> 0]

\* types.TimestampValueFromTime(t): microseconds since the epoch
TimestampValueFromTime(t) ==
    [era |-> t.era, off |-> t.off, usec |-> t.nsec \div 1000]
\* the scan of a Timestamp column into time.Time
TimeFromTimestamp(v) == [era |-> v.era, off |-> v.off, nsec |-> v.usec * 1000]

\* a Go int is [wrap, low]: wrap * 2^32 + low with low in the int32 range
GoInt(n) == [wrap |-> 0, low |-> n]
\* types.Int32Value(int32(n)) and the scan of an Int32 column into an int
Int32Value(n) == n.low
IntFromInt32(v) == [wrap |-> 0, low |-> v]

\* --- repository.go: Timestamp columns, *time.Time scanned directly ---
RepoOptionalTimestamp(o) ==
    IF o = Null THEN Null ELSE Some(TimestampValueFromTime(o[1]))
RepoScanOptionalTime(v) ==
    IF v = Null THEN Null ELSE Some(TimeFromTimestamp(v[1]))
\* a blank auxiliary token is bound as NULL
RepoOptionalUtf8(s) == IF s # "" THEN Some(s) ELSE Null

\* --- interface.go: Datetime columns through *uint32 ---
\* optionalDatetime over the *uint32 built from the entity's *time.Time
optionalDatetimeZeroAsNull(o) ==
    IF o = Null \/ o[1].off = 0 THEN Null ELSE Some(DatetimeValue(o[1]))
optionalDatetime(o) ==
    IF o = Null THEN Null ELSE Some(DatetimeValue(o[1]))
IfaceScanOptionalTime(v) ==
    IF v = Null THEN Null ELSE Some(TimeFromDatetime(v[1]))
\* optionalText over the *string built from the entity's string
optionalText(s) == IF s # "" THEN Some(s) ELSE Null

Representable(i, t) ==
    \* the times each column type stores without loss
    IF i = "repository" THEN t.era \in {0, 1} /\ t.nsec % 1000 = 0
    ELSE t.era \in {0, 1} /\ t.nsec = 0
OptRepresentable(i, o) == o = Null \/ Representable(i, o[1])

\* the current time as the implementation's time column holds it
EncodeTime(i, t) ==
    IF i = "repository" THEN TimestampValueFromTime(t) ELSE DatetimeValue(t)

(***************************************************************************)
(* Sequential callers: GetConnection as one step of the calling operation. *)
(***************************************************************************)
\* the error GetConnection returns to a call made now
ConnErr(openOk) ==
    IF OnceRuns(onceState)
    THEN InitOutcome(env.endpoint, env.database, openOk).err
    ELSE initErr

\* the effect of that call on the package variables
GetConnection(openOk) ==
    IF OnceRuns(onceState)
    THEN LET o == InitOutcome(env.endpoint, env.database, openOk)
         IN  /\ onceState' = "done"
             /\ endpoint' = env.endpoint
             /\ database' = env.database
             /\ db' = o.db
             /\ initErr' = o.err
             /\ initCount' = initCount + 1
             /\ envReads' = envReads + 2
             /\ openCount' = openCount + o.opened
             /\ UNCHANGED env
    ELSE UNCHANGED connVars

\* the error of an operation: the connection error, else the failure of the
\* statement (stmtErr: the store rejected or could not execute it)
OpErrOfStatement(openOk, stmtErr) == IF stmtErr THEN "ErrExec" ELSE "nil"
OpErr(openOk, stmtErr) ==
    IF ConnErr(openOk) # "nil" THEN ConnErr(openOk)
    ELSE IF stmtErr THEN "ErrExec" ELSE "nil"

(***************************************************************************)
(* Users.                                                                  *)
(***************************************************************************)
Statuses == {"active", "inactive", "unauthenticated"}

\* --- repository.go ---
\* if user.CreatedAt.IsZero() { user.CreatedAt = now }
RepoUpsertUserEntity(u, now) ==
    IF IsZero(u.CreatedAt) THEN [u EXCEPT !.CreatedAt = now] ELSE u

UserRow(i, u) ==
    IF i = "repository"
    THEN [telegram_chat_id |-> u.TelegramChatID,
          status |-> u.Status,
          created_at |-> TimestampValueFromTime(u.CreatedAt),
          last_auth_success_at |-> RepoOptionalTimestamp(u.LastAuthSuccessAt),
          last_auth_failure_at |-> RepoOptionalTimestamp(u.LastAuthFailureAt)]
    ELSE [telegram_chat_id |-> u.TelegramChatID,
          status |-> u.Status,
          created_at |-> DatetimeValue(u.CreatedAt),
          last_auth_success_at |-> optionalDatetime(u.LastAuthSuccessAt),
          last_auth_failure_at |-> optionalDatetime(u.LastAuthFailureAt)]
ScanUser(i, row) ==
    IF i = "repository"
    THEN [TelegramChatID |-> row.telegram_chat_id,
          Status |-> row.status,
          CreatedAt |-> TimeFromTimestamp(row.created_at),
          LastAuthSuccessAt |-> RepoScanOptionalTime(row.last_auth_success_at),
          LastAuthFailureAt |-> RepoScanOptionalTime(row.last_auth_failure_at)]
    ELSE [TelegramChatID |-> row.telegram_chat_id,
          Status |-> row.status,
          CreatedAt |-> TimeFromDatetime(row.created_at),
          LastAuthSuccessAt |->
              IfaceScanOptionalTime(row.last_auth_success_at),
          LastAuthFailureAt |->
              IfaceScanOptionalTime(row.last_auth_failure_at)]

\* SELECT ... FROM users WHERE telegram_chat_id = $chat_id, then the
\* zero-rows test and the scan
UserLookupAny(i, tbl, c) ==
    IF \A k \in ChatIDs : tbl[k] = Null
    THEN [err |-> "ErrUserNotFound", val |-> Null]
    ELSE LET k == CHOOSE k \in ChatIDs : tbl[k] # Null
         IN  [err |-> "nil", val |-> Some(ScanUser(i, tbl[k][1]))]
UserLookup(i, tbl, c) ==
    IF tbl[c] = Null
    THEN [err |-> "ErrUserNotFound", val |-> Null]
    ELSE [err |-> "nil", val |-> Some(ScanUser(i, tbl[c][1]))]

\* UPSERT INTO users: the whole row is replaced
UpsertUserMerge(tbl, row) ==
    [tbl EXCEPT ![row.telegram_chat_id] =
        IF tbl[row.telegram_chat_id] = Null \/ row.last_auth_success_at # Null
        THEN Some(row)
        ELSE Some([row EXCEPT !.last_auth_success_at =
                       tbl[row.telegram_chat_id][1].last_auth_success_at])]
UpsertUserRows(tbl, row) ==
    [tbl EXCEPT ![row.telegram_chat_id] = Some(row)]

\* UPDATE users SET status = $status WHERE telegram_chat_id = $chat_id
UpdateUserStatusUpsert(tbl, c, s) ==
    [tbl EXCEPT ![c] =
        Some([telegram_chat_id |-> c, status |-> s,
              created_at |-> IF tbl[c] = Null
                             THEN (IF impl = "repository"
                                   THEN TimestampValueFromTime(Now)
                                   ELSE DatetimeValue(Now))
                             ELSE tbl[c][1].created_at,
              last_auth_success_at |-> Null,
              last_auth_failure_at |-> Null])]
UpdateUserStatusRows(tbl, c, s) ==
    [tbl EXCEPT ![c] =
        IF tbl[c] = Null THEN Null ELSE Some([tbl[c][1] EXCEPT !.status = s])]

\* GetUserByTelegramChatID(ctx, chatID)
GetUserByTelegramChatID(c, stmtErr, openOk) ==
    /\ nops < MaxOps
    /\ nops' = nops + 1
    /\ GetConnection(openOk)
    /\ LET err == OpErr(openOk, stmtErr)
           res == UserLookup(impl, users, c)
       IN  last' = [op |-> "GetUserByTelegramChatID", key |-> c, arg |-> Null,
                    ent |-> Null,
                    err |-> IF err # "nil" THEN err ELSE res.err,
                    val |-> IF err # "nil" THEN Null ELSE res.val,
                    prev |-> users[c], fail |-> stmtErr, now |-> Now]
    /\ UNCHANGED <<impl, callVars, storeVars, clock, nextUuid, wk, overlap, tx>>

\* UpsertUser(ctx, user)
UpsertUser(u, stmtErr, openOk) ==
    /\ nops < MaxOps
    /\ nops' = nops + 1
    /\ GetConnection(openOk)
    /\ LET err == OpErr(openOk, stmtErr)
           ent == IF impl = "repository" /\ ConnErr(openOk) = "nil"
                  THEN RepoUpsertUserEntity(u, Now) ELSE u
       IN  /\ users' = IF err = "nil"
                       THEN UpsertUserRows(users, UserRow(impl, ent))
                       ELSE users
           /\ last' = [op |-> "UpsertUser", key |-> u.TelegramChatID,
                       arg |-> Some(u), ent |-> Some(ent), err |-> err,
                       val |-> Null, prev |-> users[u.TelegramChatID],
                       fail |-> stmtErr, now |-> Now]
    /\ UNCHANGED <<impl, callVars, user_tokens, search_subscriptions,
                   notifications, clock, nextUuid, wk, overlap, tx>>

\* UpdateUserStatus(ctx, chatID, status)
UpdateUserStatus(c, s, stmtErr, openOk) ==
    /\ nops < MaxOps
    /\ nops' = nops + 1
    /\ GetConnection(openOk)
    /\ LET err == OpErr(openOk, stmtErr)
       IN  /\ users' = IF err = "nil"
                       THEN UpdateUserStatusRows(users, c, s)
                       ELSE users
           /\ last' = [op |-> "UpdateUserStatus", key |-> c, arg |-> Some(s),
                       ent |-> Null, err |-> err, val |-> Null,
                       prev |-> users[c], fail |-> stmtErr, now |-> Now]
    /\ UNCHANGED <<impl, callVars, user_tokens, search_subscriptions,
                   notifications, clock, nextUuid, wk, overlap, tx>>

(***************************************************************************)
(* Tokens.                                                                 *)
(***************************************************************************)
\* --- repository.go ---
\* if tokens.CreatedAt.IsZero() { tokens.CreatedAt = now }; UpdatedAt = now
RepoStoreUserTokensEntity(t, now) ==
    [t EXCEPT !.CreatedAt = IF IsZero(t.CreatedAt) THEN now ELSE t.CreatedAt,
              !.UpdatedAt = now]

TokensRow(i, t) ==
    IF i = "repository"
    THEN [telegram_chat_id |-> t.TelegramChatID,
          access_token |-> t.AccessToken,
          refresh_token |-> t.RefreshToken,
          user_id |-> t.UserID,
          datadome |-> RepoOptionalUtf8(t.Datadome),
          app_token |-> RepoOptionalUtf8(t.AppToken),
          created_at |-> TimestampValueFromTime(t.CreatedAt),
          updated_at |-> TimestampValueFromTime(t.UpdatedAt)]
    ELSE [telegram_chat_id |-> t.TelegramChatID,
          access_token |-> t.AccessToken,
          refresh_token |-> t.RefreshToken,
          user_id |-> t.UserID,
          datadome |-> optionalText(t.Datadome),
          app_token |-> optionalText(t.AppToken),
          created_at |-> DatetimeValue(t.CreatedAt),
          updated_at |-> DatetimeValue(t.UpdatedAt)]

\* DELETE FROM user_tokens WHERE telegram_chat_id = $chat_id
DeleteAllUserTokensRows(tbl, c) == [k \in ChatIDs |-> Null]
DeleteUserTokensRows(tbl, c) == [tbl EXCEPT ![c] = Null]

\* StoreUserTokens(ctx, tokens)
StoreUserTokens(t, stmtErr, openOk) ==
    /\ nops < MaxOps
    /\ nops' = nops + 1
    /\ GetConnection(openOk)
    /\ LET err == OpErr(openOk, stmtErr)
           ent == IF impl = "repository" /\ ConnErr(openOk) = "nil"
                  THEN RepoStoreUserTokensEntity(t, Now) ELSE t
       IN  /\ user_tokens' = IF err = "nil"
                             \* UPSERT INTO user_tokens: the whole row is
                             \* replaced
                             THEN [user_tokens EXCEPT
                                      ![ent.TelegramChatID] =
                                          Some(TokensRow(impl, ent))]
                             ELSE user_tokens
           /\ last' = [op |-> "StoreUserTokens", key |-> t.TelegramChatID,
                       arg |-> Some(t), ent |-> Some(ent), err |-> err,
                       val |-> Null, prev |-> user_tokens[t.TelegramChatID],
                       fail |-> stmtErr, now |-> Now]
    /\ UNCHANGED <<impl, callVars, users, search_subscriptions, notifications,
                   clock, nextUuid, wk, overlap, tx>>

\* DeleteUserTokens(ctx, chatID)
DeleteUserTokens(c, stmtErr, openOk) ==
    /\ nops < MaxOps
    /\ nops' = nops + 1
    /\ GetConnection(openOk)
    /\ LET err == OpErr(openOk, stmtErr)
       IN  /\ user_tokens' = IF err = "nil"
                             THEN DeleteUserTokensRows(user_tokens, c)
                             ELSE user_tokens
           /\ last' = [op |-> "DeleteUserTokens", key |-> c, arg |-> Null,
                       ent |-> Null, err |-> err, val |-> Null,
                       prev |-> user_tokens[c], fail |-> stmtErr, now |-> Now]
    /\ UNCHANGED <<impl, callVars, users, search_subscriptions, notifications,
                   clock, nextUuid, wk, overlap, tx>>

\* SELECT ... FROM user_tokens WHERE telegram_chat_id = $chat_id, then the
\* zero-rows test and the scan
TokensLookup(i, tbl, c) ==
    IF tbl[c] = Null
    THEN [err |-> "ErrTokensNotFound", val |-> Null]
    ELSE LET row == tbl[c][1]
             \* the columns either scan reads the same way
             scanned ==
                 [TelegramChatID |-> row.telegram_chat_id,
                  AccessToken |-> row.access_token,
                  RefreshToken |-> row.refresh_token,
                  UserID |-> row.user_id,
                  Datadome |-> IF row.datadome = Null
                               THEN "" ELSE row.datadome[1],
                  AppToken |-> IF row.app_token = Null
                               THEN "" ELSE row.app_token[1],
                  CreatedAt |-> ZeroTime,
                  UpdatedAt |-> ZeroTime]
         IN  IF i = "repository"
             \* res.Scan(&tokens.TelegramChatID, ..., &tokens.UpdatedAt):
             \* datadome and app_token are Optional<Utf8> columns scanned
             \* into the plain string fields tokens.Datadome and
             \* tokens.AppToken; result.Scan takes a NULL only through a
             \* double pointer, so a NULL there ends the scan with an
             \* error, which GetUserTokens returns
             THEN IF row.datadome = Null \/ row.app_token = Null
                  THEN [err |-> "ErrScan", val |-> Null]
                  ELSE [err |-> "nil",
                        val |-> Some([scanned EXCEPT
                           !.CreatedAt = TimeFromTimestamp(row.created_at),
                           !.UpdatedAt = TimeFromTimestamp(row.updated_at)])]
             \* yscan.ScanRow(&tokens, res): a NULL text column is left as
             \* the empty string
             ELSE [err |-> "nil",
                   val |-> Some([scanned EXCEPT
                      !.CreatedAt = TimeFromDatetime(row.created_at),
                      !.UpdatedAt = TimeFromDatetime(row.updated_at)])]

\* GetUserTokens(ctx, chatID)
GetUserTokens(c, stmtErr, openOk) ==
    /\ nops < MaxOps
    /\ nops' = nops + 1
    /\ GetConnection(openOk)
    /\ LET err == OpErr(openOk, stmtErr)
           res == TokensLookup(impl, user_tokens, c)
       IN  last' = [op |-> "GetUserTokens", key |-> c, arg |-> Null,
                    ent |-> Null,
                    err |-> IF err # "nil" THEN err ELSE res.err,
                    val |-> IF err # "nil" THEN Null ELSE res.val,
                    prev |-> user_tokens[c], fail |-> stmtErr, now |-> Now]
    /\ UNCHANGED <<impl, callVars, storeVars, clock, nextUuid, wk, overlap, tx>>

(***************************************************************************)
(* Subscriptions.                                                          *)
(***************************************************************************)
NewUuid ==
    <<"uuid-1", "uuid-2", "uuid-3", "uuid-4", "uuid-5", "uuid-6">>[nextUuid + 1]

\* --- repository.go ---
\* if sub.ID == "" { sub.ID = uuid }; sub.CreatedAt = now; sub.IsActive = true
RepoCreateSearchSubscriptionEntity(sub, now, uuid) ==
    [sub EXCEPT !.ID = IF sub.ID = "" THEN uuid ELSE sub.ID,
                !.CreatedAt = now,
                !.IsActive = TRUE]

\* --- interface.go: the entity is bound as the caller passed it ---
IfaceSubscriptionRow(sub) ==
    [id |-> sub.ID,
     telegram_chat_id |-> sub.TelegramChatID,
     from_place_id |-> sub.FromPlaceID,
     from_place_name |-> sub.FromPlaceName,
     to_place_id |-> sub.ToPlaceID,
     to_place_name |-> sub.ToPlaceName,
     departure_date |-> sub.DepartureDate,
     requested_seats |-> Int32Value(sub.RequestedSeats),
     is_active |-> sub.IsActive,
     created_at |-> DatetimeValue(sub.CreatedAt),
     last_checked_at |-> Null]

SubscriptionRow(i, sub) ==
    IF i = "repository"
    THEN [id |-> sub.ID,
          telegram_chat_id |-> sub.TelegramChatID,
          from_place_id |-> sub.FromPlaceID,
          from_place_name |-> sub.FromPlaceName,
          to_place_id |-> sub.ToPlaceID,
          to_place_name |-> sub.ToPlaceName,
          departure_date |-> sub.DepartureDate,
          requested_seats |-> Int32Value(sub.RequestedSeats),
          is_active |-> sub.IsActive,
          created_at |-> TimestampValueFromTime(sub.CreatedAt),
          last_checked_at |-> Null]
    ELSE IfaceSubscriptionRow(sub)

\* rows of a table with the given primary key
RowsWithId(tbl, id) == {r \in tbl : r.id = id}

\* INSERT INTO ...: rejected by the store when the primary key exists
InsertConflict(tbl, row) == RowsWithId(tbl, row.id) # {}
InsertRow(tbl, row) == tbl \cup {row}

\* CreateSearchSubscription(ctx, sub)
CreateSearchSubscription(sub, stmtErr, openOk) ==
    /\ nops < MaxOps
    /\ nops' = nops + 1
    /\ GetConnection(openOk)
    /\ LET mutates == impl = "repository" /\ ConnErr(openOk) = "nil"
           draws == mutates /\ sub.ID = ""
           ent == IF mutates
                  THEN RepoCreateSearchSubscriptionEntity(sub, Now, NewUuid)
                  ELSE sub
           row == SubscriptionRow(impl, ent)
           err == OpErr(openOk,
                        stmtErr \/ InsertConflict(search_subscriptions, row))
       IN  /\ draws => nextUuid < MaxUuid
           /\ nextUuid' = IF draws THEN nextUuid + 1 ELSE nextUuid
           /\ search_subscriptions' =
                 IF err = "nil" THEN InsertRow(search_subscriptions, row)
                 ELSE search_subscriptions
           /\ last' = [op |-> "CreateSearchSubscription", key |-> ent.ID,
                       arg |-> Some(sub), ent |-> Some(ent), err |-> err,
                       val |-> Null,
                       prev |-> RowsWithId(search_subscriptions, ent.ID),
                       fail |-> stmtErr, now |-> Now]
    /\ UNCHANGED <<impl, callVars, users, user_tokens, notifications, clock,
                   wk, overlap, tx>>

\* DeleteSearchSubscription(ctx, subID)
DeleteSearchSubscription(id, stmtErr, openOk) ==
    /\ nops < MaxOps
    /\ nops' = nops + 1
    /\ GetConnection(openOk)
    /\ LET err == OpErr(openOk, stmtErr)
       IN  /\ search_subscriptions' =
                 IF err = "nil"
                 \* DELETE FROM search_subscriptions WHERE id = $id
                 THEN {r \in search_subscriptions : r.id # id}
                 ELSE search_subscriptions
           /\ last' = [op |-> "DeleteSearchSubscription", key |-> id,
                       arg |-> Null, ent |-> Null, err |-> err, val |-> Null,
                       prev |-> RowsWithId(search_subscriptions, id),
                       fail |-> stmtErr, now |-> Now]
    /\ UNCHANGED <<impl, callVars, users, user_tokens, notifications, clock,
                   nextUuid, wk, overlap, tx>>

\* UpdateSubscriptionLastChecked(ctx, subID): the statement, with the
\* reading now of time.Now()
UpdateSubscriptionLastCheckedCall(id, now, stmtErr, openOk) ==
    /\ GetConnection(openOk)
    /\ LET err == OpErr(openOk, stmtErr)
       IN  /\ search_subscriptions' =
                 IF err = "nil"
                 \* UPDATE search_subscriptions SET last_checked_at = $t
                 \* WHERE id = $id
                 THEN {IF r.id = id
                       THEN [r EXCEPT !.last_checked_at =
                                         Some(EncodeTime(impl, now))]
                       ELSE r : r \in search_subscriptions}
                 ELSE search_subscriptions
           /\ last' = [op |-> "UpdateSubscriptionLastChecked", key |-> id,
                       arg |-> Null, ent |-> Null, err |-> err, val |-> Null,
                       prev |-> RowsWithId(search_subscriptions, id),
                       fail |-> stmtErr, now |-> now]

\* UpdateSubscriptionLastChecked called by a sequential caller
UpdateSubscriptionLastChecked(id, stmtErr, openOk) ==
    /\ nops < MaxOps
    /\ nops' = nops + 1
    /\ UpdateSubscriptionLastCheckedCall(id, Now, stmtErr, openOk)
    /\ UNCHANGED <<impl, callVars, users, user_tokens, notifications, clock,
                   nextUuid, wk, overlap, tx>>

\* SetSubscriptionActive(ctx, subID, active)
SetSubscriptionActive(id, active, stmtErr, openOk) ==
    /\ nops < MaxOps
    /\ nops' = nops + 1
    /\ GetConnection(openOk)
    /\ LET err == OpErr(openOk, stmtErr)
       IN  /\ search_subscriptions' =
                 IF err = "nil"
                 \* UPDATE search_subscriptions SET is_active = $is_active
                 \* WHERE id = $id
                 THEN {IF r.id = id THEN [r EXCEPT !.is_active = active]
                       ELSE r : r \in search_subscriptions}
                 ELSE search_subscriptions
           /\ last' = [op |-> "SetSubscriptionActive", key |-> id,
                       arg |-> Some(active), ent |-> Null, err |-> err,
                       val |-> Null,
                       prev |-> RowsWithId(search_subscriptions, id),
                       fail |-> stmtErr, now |-> Now]
    /\ UNCHANGED <<impl, callVars, users, user_tokens, notifications, clock,
                   nextUuid, wk, overlap, tx>>

ScanSubscription(i, row) ==
    IF i = "repository"
    THEN [ID |-> row.id,
          TelegramChatID |-> row.telegram_chat_id,
          FromPlaceID |-> row.from_place_id,
          FromPlaceName |-> row.from_place_name,
          ToPlaceID |-> row.to_place_id,
          ToPlaceName |-> row.to_place_name,
          DepartureDate |-> row.departure_date,
          RequestedSeats |-> IntFromInt32(row.requested_seats),
          IsActive |-> row.is_active,
          CreatedAt |-> TimeFromTimestamp(row.created_at),
          LastCheckedAt |-> RepoScanOptionalTime(row.last_checked_at)]
    ELSE [ID |-> row.id,
          TelegramChatID |-> row.telegram_chat_id,
          FromPlaceID |-> row.from_place_id,
          FromPlaceName |-> row.from_place_name,
          ToPlaceID |-> row.to_place_id,
          ToPlaceName |-> row.to_place_name,
          DepartureDate |-> row.departure_date,
          RequestedSeats |-> IntFromInt32(row.requested_seats),
          IsActive |-> row.is_active,
          CreatedAt |-> TimeFromDatetime(row.created_at),
          LastCheckedAt |-> IfaceScanOptionalTime(row.last_checked_at)]

\* the orders in which the store can return a set of rows (the SELECTs
\* have no ORDER BY)
Orderings(rows) ==
    {q \in [1..Cardinality(rows) -> rows] : \A r \in rows : \E k \in DOMAIN q :
                                               q[k] = r}

\* WHERE telegram_chat_id = $chat_id
RowsOfAnyChat(tbl, c) == tbl
RowsOfChat(tbl, c) == {r \in tbl : r.telegram_chat_id = c}

\* var subs []models.SearchSubscription; for every row: scan, append
SubscriptionsResultNotFound(i, q) ==
    IF q = <<>> THEN [err |-> "ErrSubscriptionNotFound", val |-> Null]
    ELSE [err |-> "nil",
          val |-> Some([k \in 1..Len(q) |-> ScanSubscription(i, q[k])])]
SubscriptionsResult(i, q) ==
    [err |-> "nil",
     val |-> Some([k \in 1..Len(q) |-> ScanSubscription(i, q[k])])]

\* GetSearchSubscriptionsByUser(ctx, chatID)
GetSearchSubscriptionsByUser(c, stmtErr, openOk) ==
    /\ nops < MaxOps
    /\ nops' = nops + 1
    /\ GetConnection(openOk)
    /\ LET err == OpErr(openOk, stmtErr)
       IN  \E q \in Orderings(RowsOfChat(search_subscriptions, c)) :
             LET res == SubscriptionsResult(impl, q)
             IN  last' = [op |-> "GetSearchSubscriptionsByUser", key |-> c,
                          arg |-> Null, ent |-> Null,
                          err |-> IF err # "nil" THEN err ELSE res.err,
                          val |-> IF err # "nil" THEN Null ELSE res.val,
                          prev |-> q, fail |-> stmtErr, now |-> Now]
    /\ UNCHANGED <<impl, callVars, storeVars, clock, nextUuid, wk, overlap,
                   tx>>

\* GetActiveSubscriptions(ctx)
GetActiveSubscriptions(stmtErr, openOk) ==
    /\ nops < MaxOps
    /\ nops' = nops + 1
    /\ GetConnection(openOk)
    /\ LET err == OpErr(openOk, stmtErr)
       IN  \E q \in Orderings({r \in search_subscriptions : r.is_active}) :
             LET res == SubscriptionsResult(impl, q)
             IN  last' = [op |-> "GetActiveSubscriptions", key |-> Null,
                          arg |-> Null, ent |-> Null,
                          err |-> IF err # "nil" THEN err ELSE res.err,
                          val |-> IF err # "nil" THEN Null ELSE res.val,
                          prev |-> q, fail |-> stmtErr, now |-> Now]
    /\ UNCHANGED <<impl, callVars, storeVars, clock, nextUuid, wk, overlap,
                   tx>>

\* GetActiveUsers(ctx)
GetActiveUsers(stmtErr, openOk) ==
    /\ nops < MaxOps
    /\ nops' = nops + 1
    /\ GetConnection(openOk)
    /\ LET err == OpErr(openOk, stmtErr)
           \* WHERE status = 'active', over the users table
           active == {users[c][1] :
                         c \in {k \in ChatIDs :
                                  /\ users[k] # Null
                                  /\ users[k][1].status = "active"}}
       IN  \E q \in Orderings(active) :
             \* var users []models.User; for every row: scan, append
             LET res == [err |-> "nil",
                         val |-> Some([k \in 1..Len(q) |->
                                          ScanUser(impl, q[k])])]
             IN  last' = [op |-> "GetActiveUsers", key |-> Null,
                          arg |-> Null, ent |-> Null,
                          err |-> IF err # "nil" THEN err ELSE res.err,
                          val |-> IF err # "nil" THEN Null ELSE res.val,
                          prev |-> q, fail |-> stmtErr, now |-> Now]
    /\ UNCHANGED <<impl, callVars, storeVars, clock, nextUuid, wk, overlap,
                   tx>>

(***************************************************************************)
(* Notifications.                                                          *)
(***************************************************************************)
\* --- repository.go ---
\* if notif.ID == "" { notif.ID = uuid }; CreatedAt = now; Status = "sent"
RepoCreateNotificationEntity(n, now, uuid) ==
    [n EXCEPT !.ID = IF n.ID = "" THEN uuid ELSE n.ID,
              !.CreatedAt = now,
              !.Status = "sent"]

\* --- interface.go ---
IfaceNotificationRow(n) ==
    [id |-> n.ID,
     telegram_chat_id |-> n.TelegramChatID,
     subscription_id |-> n.SubscriptionID,
     trip_id |-> n.TripID,
     telegram_message_id |-> Int32Value(n.TelegramMessageID),
     status |-> n.Status,
     created_at |-> DatetimeValue(n.CreatedAt)]

NotificationRow(i, n) ==
    IF i = "repository"
    THEN [id |-> n.ID,
          telegram_chat_id |-> n.TelegramChatID,
          subscription_id |-> n.SubscriptionID,
          trip_id |-> n.TripID,
          telegram_message_id |-> Int32Value(n.TelegramMessageID),
          status |-> n.Status,
          created_at |-> TimestampValueFromTime(n.CreatedAt)]
    ELSE IfaceNotificationRow(n)
ScanNotification(i, row) ==
    IF i = "repository"
    THEN [ID |-> row.id,
          TelegramChatID |-> row.telegram_chat_id,
          SubscriptionID |-> row.subscription_id,
          TripID |-> row.trip_id,
          TelegramMessageID |-> IntFromInt32(row.telegram_message_id),
          Status |-> row.status,
          CreatedAt |-> TimeFromTimestamp(row.created_at)]
    ELSE [ID |-> row.id,
          TelegramChatID |-> row.telegram_chat_id,
          SubscriptionID |-> row.subscription_id,
          TripID |-> row.trip_id,
          TelegramMessageID |-> IntFromInt32(row.telegram_message_id),
          Status |-> row.status,
          CreatedAt |-> TimeFromDatetime(row.created_at)]

\* WHERE telegram_chat_id = $chat_id AND subscription_id = $subscription_id
\*   AND trip_id = $trip_id
RowsOfTripSwapped(tbl, c, subID, tripID) ==
    {r \in tbl : /\ r.telegram_chat_id = c
                 /\ r.subscription_id = tripID
                 /\ r.trip_id = subID}
RowsOfTrip(tbl, c, subID, tripID) ==
    {r \in tbl : /\ r.telegram_chat_id = c
                 /\ r.subscription_id = subID
                 /\ r.trip_id = tripID}

\* the results GetNotificationByTrip can return on a table: (nil, nil) for
\* zero rows, else the scan of the first row the store returns
NotificationLookupErr(i, tbl, c, subID, tripID) ==
    IF RowsOfTrip(tbl, c, subID, tripID) = {}
    THEN {[err |-> "ErrNotificationNotFound", val |-> Null]}
    ELSE {[err |-> "nil", val |-> Some(ScanNotification(i, r))] :
             r \in RowsOfTrip(tbl, c, subID, tripID)}
NotificationLookup(i, tbl, c, subID, tripID) ==
    IF RowsOfTrip(tbl, c, subID, tripID) = {}
    THEN {[err |-> "nil", val |-> Null]}
    ELSE {[err |-> "nil", val |-> Some(ScanNotification(i, r))] :
             r \in RowsOfTrip(tbl, c, subID, tripID)}

\* CreateNotification(ctx, notif): the call itself
CreateNotificationCall(n, stmtErr, openOk) ==
    /\ GetConnection(openOk)
    /\ LET mutates == impl = "repository" /\ ConnErr(openOk) = "nil"
           draws == mutates /\ n.ID = ""
           ent == IF mutates
                  THEN RepoCreateNotificationEntity(n, Now, NewUuid)
                  ELSE n
           row == NotificationRow(impl, ent)
           err == OpErr(openOk, stmtErr \/ InsertConflict(notifications, row))
       IN  /\ draws => nextUuid < MaxUuid
           /\ nextUuid' = IF draws THEN nextUuid + 1 ELSE nextUuid
           /\ notifications' = IF err = "nil"
                               THEN InsertRow(notifications, row)
                               ELSE notifications
           /\ last' = [op |-> "CreateNotification",
                       key |-> <<n.TelegramChatID, n.SubscriptionID,
                                 n.TripID>>,
                       arg |-> Some(n), ent |-> Some(ent), err |-> err,
                       val |-> Null,
                       prev |-> RowsOfTrip(notifications, n.TelegramChatID,
                                           n.SubscriptionID, n.TripID),
                       fail |-> stmtErr, now |-> Now]

\* CreateNotification called by a sequential caller
CreateNotification(n, stmtErr, openOk) ==
    /\ nops < MaxOps
    /\ nops' = nops + 1
    /\ CreateNotificationCall(n, stmtErr, openOk)
    /\ UNCHANGED <<impl, callVars, users, user_tokens, search_subscriptions,
                   clock, wk, overlap, tx>>

\* GetNotificationByTrip(ctx, chatID, subID, tripID): the call itself
GetNotificationByTripCall(c, subID, tripID, stmtErr, openOk) ==
    /\ GetConnection(openOk)
    /\ LET err == OpErr(openOk, stmtErr)
       IN  \E res \in NotificationLookup(impl, notifications, c, subID,
                                         tripID) :
             last' = [op |-> "GetNotificationByTrip",
                      key |-> <<c, subID, tripID>>, arg |-> Null,
                      ent |-> Null,
                      err |-> IF err # "nil" THEN err ELSE res.err,
                      val |-> IF err # "nil" THEN Null ELSE res.val,
                      prev |-> RowsOfTrip(notifications, c, subID, tripID),
                      fail |-> stmtErr, now |-> Now]

\* GetNotificationByTrip called by a sequential caller
GetNotificationByTrip(c, subID, tripID, stmtErr, openOk) ==
    /\ nops < MaxOps
    /\ nops' = nops + 1
    /\ GetNotificationByTripCall(c, subID, tripID, stmtErr, openOk)
    /\ UNCHANGED <<impl, callVars, storeVars, clock, nextUuid, wk, overlap, tx>>

\* UPDATE notifications SET telegram_message_id = $message_id WHERE id = $id
UpdateMessageIDRowsAll(tbl, id, msg) ==
    {[r EXCEPT !.telegram_message_id = Int32Value(msg)] : r \in tbl}
UpdateMessageIDRows(tbl, id, msg) ==
    {IF r.id = id THEN [r EXCEPT !.telegram_message_id = Int32Value(msg)]
     ELSE r : r \in tbl}

\* UpdateNotificationMessageID(ctx, notifID, messageID)
UpdateNotificationMessageID(id, msg, stmtErr, openOk) ==
    /\ nops < MaxOps
    /\ nops' = nops + 1
    /\ GetConnection(openOk)
    /\ LET err == OpErr(openOk, stmtErr)
       IN  /\ notifications' =
                 IF err = "nil"
                 THEN UpdateMessageIDRows(notifications, id, msg)
                 ELSE notifications
           /\ last' = [op |-> "UpdateNotificationMessageID", key |-> id,
                       arg |-> Some(msg), ent |-> Null, err |-> err,
                       val |-> Null, prev |-> notifications,
                       fail |-> stmtErr, now |-> Now]
    /\ UNCHANGED <<impl, callVars, users, user_tokens, search_subscriptions,
                   clock, nextUuid, wk, overlap, tx>>

(***************************************************************************)
(* Sequential callers of the repository operations.                        *)
(***************************************************************************)
\* times a caller passes in: a whole second inside the Datetime range, a
\* time with a sub-microsecond part, a time before the Unix epoch
WholeSecond == [era |-> 0, off |-> 1600000000, nsec |-> 0]
\* the clock reading of the earlier process that wrote the seeded rows
SeedNow == [era |-> 0, off |-> 1650000000, nsec |-> 987654321]

User(c, st, created, success, failure) ==
    [TelegramChatID |-> c, Status |-> st, CreatedAt |-> created,
     LastAuthSuccessAt |-> success, LastAuthFailureAt |-> failure]

UserInputs ==
    UNION {{User(c, "unauthenticated", Now, Null, Null),
            User(c, "unauthenticated", WholeSecond, Null, Null),
            User(c, "active", ZeroTime, Some(WholeSecond), Null),
            User(c, "inactive", WholeSecond, Some(WholeSecond),
                 Some(WholeSecond)),
            \* authenticated before 1970, failed at a sub-microsecond time
            User(c, "active", WholeSecond,
                 Some([era |-> -1, off |-> 2147000000, nsec |-> 0]),
                 Some([era |-> 0, off |-> 1600000001, nsec |-> 500000001]))} :
              c \in ChatIDs}

Tokens(c, n, dd, app, created, updated) ==
    [TelegramChatID |-> c, AccessToken |-> <<"access", n>>,
     RefreshToken |-> <<"refresh", n>>, UserID |-> <<"bbc-user", n>>,
     Datadome |-> dd, AppToken |-> app,
     CreatedAt |-> created, UpdatedAt |-> updated]

TokensInputs ==
    UNION {{Tokens(c, 1, "", "", ZeroTime, ZeroTime),
            Tokens(c, 2, "dd", "app", WholeSecond, WholeSecond)} :
           c \in ChatIDs}

Subscription(id, c, seats, active, created) ==
    [ID |-> id, TelegramChatID |-> c,
     FromPlaceID |-> "place-paris", FromPlaceName |-> "Paris",
     ToPlaceID |-> "place-lyon", ToPlaceName |-> "Lyon",
     DepartureDate |-> "2024-06-01", RequestedSeats |-> GoInt(seats),
     IsActive |-> active, CreatedAt |-> created, LastCheckedAt |-> Null]

SubscriptionInputs ==
    UNION {{Subscription("", c, 2, FALSE, ZeroTime),
            Subscription("sub-a", c, 1, TRUE, WholeSecond)} : c \in ChatIDs}
       \* seat counts the caller is free to pass: none, and 2^32 + 3, which
       \* int32() reduces to 3
       \cup {Subscription("", 1, 0, TRUE, WholeSecond),
             [Subscription("", 1, 3, TRUE, WholeSecond) EXCEPT
                 !.RequestedSeats = [wrap |-> 1, low |-> 3]]}

SubscriptionIds == {"", "sub-a", "uuid-1"}

Notification(id, k, msg, st, created) ==
    [ID |-> id, TelegramChatID |-> k[1], SubscriptionID |-> k[2],
     TripID |-> k[3], TelegramMessageID |-> GoInt(msg), Status |-> st,
     CreatedAt |-> created]

\* notification ids a caller passes: a stored one, a generated one, an
\* unknown one
NotificationIds == {"notif-a", "uuid-1", "notif-x"}

\* de-duplication triples <<chat identity, subscription id, trip id>>
Triples == {<<1, "sub-a", "trip-99">>, <<1, "sub-b", "trip-99">>,
            <<1, "sub-a", "trip-7">>, <<2, "sub-a", "trip-99">>}

NotificationInputs ==
    UNION {{Notification("", k, 7, "", ZeroTime),
            Notification("notif-a", k, 8, "pending", WholeSecond)} :
           k \in Triples}

\* rows an earlier process of the same build left in the store
SeedUsers(i) ==
    [c \in ChatIDs |->
       IF c = 1
       THEN Some(UserRow(i, User(1, "active", WholeSecond, Some(WholeSecond),
                                 Null)))
       ELSE Null]
SeedTokens(i) ==
    [c \in ChatIDs |->
       IF c = 1
       THEN Some(TokensRow(i,
              IF i = "repository"
              THEN RepoStoreUserTokensEntity(
                      Tokens(1, 2, "dd", "app", WholeSecond, WholeSecond),
                      SeedNow)
              ELSE Tokens(1, 2, "dd", "app", WholeSecond, WholeSecond)))
       ELSE Null]
SeedSubscriptions(i) ==
    {SubscriptionRow(i,
        IF i = "repository"
        THEN RepoCreateSearchSubscriptionEntity(
                Subscription("sub-a", 1, 1, TRUE, WholeSecond), SeedNow, "")
        ELSE Subscription("sub-a", 1, 1, TRUE, WholeSecond))}
SeedNotifications(i) ==
    {NotificationRow(i,
        IF i = "repository"
        THEN RepoCreateNotificationEntity(
                Notification("notif-a", <<1, "sub-a", "trip-7">>, 8,
                             "pending", WholeSecond), SeedNow, "")
        ELSE Notification("notif-a", <<1, "sub-a", "trip-7">>, 8, "sent",
                          WholeSecond))}

\* the wall clock advances
Tick ==
    /\ clock < MaxClock
    /\ clock' = clock + 1
    /\ UNCHANGED <<impl, connVars, callVars, storeVars, nextUuid, nops, last,
                   wk, overlap, tx>>

Init ==
    /\ impl \in Impls
    /\ InitConnVars
    /\ pc = [p \in Callers |-> "idle"]
    /\ observed = {}
    /\ \E seeded \in BOOLEAN :
         IF seeded
         THEN /\ users = SeedUsers(impl)
              /\ user_tokens = SeedTokens(impl)
              /\ search_subscriptions = SeedSubscriptions(impl)
              /\ notifications = SeedNotifications(impl)
         ELSE /\ users = [c \in ChatIDs |-> Null]
              /\ user_tokens = [c \in ChatIDs |-> Null]
              /\ search_subscriptions = {}
              /\ notifications = {}
    /\ clock = 0
    /\ nextUuid = 0
    /\ nops = 0
    /\ last = NoLast
    /\ wk = <<>>
    /\ overlap = FALSE
    /\ tx = NoTx

\* the outcomes of ydb.Open that matter to a call made now
OpenOutcomes == IF onceState = "done" THEN {TRUE} ELSE BOOLEAN

\* the operations on each table, called with any of the inputs
UserOps ==
    \/ \E c \in ChatIDs, f \in BOOLEAN, o \in OpenOutcomes :
          GetUserByTelegramChatID(c, f, o)
    \/ \E u \in UserInputs, f \in BOOLEAN, o \in OpenOutcomes :
          UpsertUser(u, f, o)
    \/ \E c \in ChatIDs, st \in Statuses, f \in BOOLEAN, o \in OpenOutcomes :
          UpdateUserStatus(c, st, f, o)
    \/ \E f \in BOOLEAN, o \in OpenOutcomes : GetActiveUsers(f, o)

TokenOps ==
    \/ \E t \in TokensInputs, f \in BOOLEAN, o \in OpenOutcomes :
          StoreUserTokens(t, f, o)
    \/ \E c \in ChatIDs, f \in BOOLEAN, o \in OpenOutcomes :
          DeleteUserTokens(c, f, o)
    \/ \E c \in ChatIDs, f \in BOOLEAN, o \in OpenOutcomes :
          GetUserTokens(c, f, o)

SubscriptionOps ==
    \/ \E sub \in SubscriptionInputs, f \in BOOLEAN, o \in OpenOutcomes :
          CreateSearchSubscription(sub, f, o)
    \/ \E id \in SubscriptionIds, f \in BOOLEAN, o \in OpenOutcomes :
          DeleteSearchSubscription(id, f, o)
    \/ \E id \in SubscriptionIds, f \in BOOLEAN, o \in OpenOutcomes :
          UpdateSubscriptionLastChecked(id, f, o)
    \/ \E id \in SubscriptionIds, a \in BOOLEAN, f \in BOOLEAN,
          o \in OpenOutcomes : SetSubscriptionActive(id, a, f, o)
    \/ \E c \in ChatIDs, f \in BOOLEAN, o \in OpenOutcomes :
          GetSearchSubscriptionsByUser(c, f, o)
    \/ \E f \in BOOLEAN, o \in OpenOutcomes : GetActiveSubscriptions(f, o)

NotificationOps ==
    \/ \E n \in NotificationInputs, f \in BOOLEAN, o \in OpenOutcomes :
          CreateNotification(n, f, o)
    \/ \E k \in Triples, f \in BOOLEAN, o \in OpenOutcomes :
          GetNotificationByTrip(k[1], k[2], k[3], f, o)
    \/ \E id \in NotificationIds, f \in BOOLEAN, o \in OpenOutcomes :
          UpdateNotificationMessageID(id, GoInt(9), f, o)

\* the whole layer
Next == Tick \/ UserOps \/ TokenOps \/ SubscriptionOps \/ NotificationOps

Spec == Init /\ [][Next]_vars

SpecUsers == Init /\ [][(Tick \/ UserOps)]_vars

SpecTokens == Init /\ [][(Tick \/ TokenOps)]_vars

SpecSubscriptions == Init /\ [][(Tick \/ SubscriptionOps)]_vars

SpecNotifications == Init /\ [][(Tick \/ NotificationOps)]_vars

SpecScans == Init /\ [][(Tick \/ UserOps \/ SubscriptionOps)]_vars

\* callers that create and delete token sets and subscriptions
NextDeletes ==
    \/ Tick
    \/ \E t \in TokensInputs, f \in BOOLEAN, o \in OpenOutcomes :
          StoreUserTokens(t, f, o)
    \/ \E c \in ChatIDs, f \in BOOLEAN, o \in OpenOutcomes :
          DeleteUserTokens(c, f, o)
    \/ \E sub \in SubscriptionInputs, f \in BOOLEAN, o \in OpenOutcomes :
          CreateSearchSubscription(sub, f, o)
    \/ \E id \in SubscriptionIds, f \in BOOLEAN, o \in OpenOutcomes :
          DeleteSearchSubscription(id, f, o)
SpecDeletes == Init /\ [][NextDeletes]_vars

(***************************************************************************)
(* Claims about the sequential operations (specification Spec).            *)
(***************************************************************************)
\* the connection is there and the store executed the last statement
Executed == initErr = "nil" /\ ~last.fail

\* C3 as stated: after UpsertUser(u), GetUserByTelegramChatID(u.chatID)
\* returns a user equal to the one written, whatever u is.
C3_ReadBackEqual ==
    (last.op = "UpsertUser" /\ last.err = "nil")
       => UserLookup(impl, users, last.key) =
             [err |-> "nil", val |-> last.ent]

(***************************************************************************)
(* C3 (amended): after UpsertUser(u), first insert or overwrite, the read  *)
(* of u's chat id returns a user with u's chat id and status, each         *)
(* optional authentication time absent exactly when it is absent in u, and *)
(* every time of u that the time column represents exactly equal to the    *)
(* one written; a user all of whose times are representable reads back     *)
(* equal.                                                                  *)
(***************************************************************************)
C3_ReadBackAsStored ==
    (last.op = "UpsertUser" /\ last.err = "nil")
       => LET w == last.ent[1]
              r == UserLookup(impl, users, last.key)
          IN  /\ r.err = "nil"
              /\ r.val # Null
              /\ r.val[1].TelegramChatID = w.TelegramChatID
              /\ r.val[1].Status = w.Status
              /\ (r.val[1].LastAuthSuccessAt = Null)
                    <=> (w.LastAuthSuccessAt = Null)
              /\ (r.val[1].LastAuthFailureAt = Null)
                    <=> (w.LastAuthFailureAt = Null)
              /\ Representable(impl, w.CreatedAt)
                    => r.val[1].CreatedAt = w.CreatedAt
              /\ OptRepresentable(impl, w.LastAuthSuccessAt)
                    => r.val[1].LastAuthSuccessAt = w.LastAuthSuccessAt
              /\ OptRepresentable(impl, w.LastAuthFailureAt)
                    => r.val[1].LastAuthFailureAt = w.LastAuthFailureAt

\* an overwrite: the row had a last-success time, the user written has
\* none, and the read returns exactly the user written
C3_Witness ==
    /\ last.op = "UpsertUser"
    /\ last.err = "nil"
    /\ last.prev # Null
    /\ last.prev[1].last_auth_success_at # Null
    /\ last.prev[1].status # last.ent[1].Status
    /\ last.ent[1].LastAuthSuccessAt = Null
    /\ UserLookup(impl, users, last.key) = [err |-> "nil", val |-> last.ent]

(***************************************************************************)
(* C4: GetUserByTelegramChatID(c) returns ErrUserNotFound and no user      *)
(* exactly when users holds no row for c; after UpsertUser of an           *)
(* unauthenticated user without authentication times the read returns that *)
(* user's row, LastAuthSuccessAt absent.                                   *)
(***************************************************************************)
C4_NotFoundIffNoRow ==
    /\ (last.op = "GetUserByTelegramChatID" /\ Executed)
          => /\ (last.err = "ErrUserNotFound") <=> (users[last.key] = Null)
             /\ (last.val = Null) <=> (users[last.key] = Null)
             /\ last.err \in {"nil", "ErrUserNotFound"}
             /\ last.val # Null => last.val[1].TelegramChatID = last.key
    /\ (/\ last.op = "UpsertUser"
        /\ last.err = "nil"
        /\ last.ent[1].Status = "unauthenticated"
        /\ last.ent[1].LastAuthSuccessAt = Null
        /\ last.ent[1].LastAuthFailureAt = Null)
          => LET r == UserLookup(impl, users, last.key)
             IN  /\ r.err = "nil"
                 /\ r.val # Null
                 /\ r.val[1].TelegramChatID = last.key
                 /\ r.val[1].Status = "unauthenticated"
                 /\ r.val[1].LastAuthSuccessAt = Null
                 /\ r.val[1].LastAuthFailureAt = Null

\* chat 2 had no row when the process started; it was upserted as
\* unauthenticated and is now read back
C4_Witness ==
    /\ last.op = "GetUserByTelegramChatID"
    /\ last.key = 2
    /\ nops = 2
    /\ last.err = "nil"
    /\ last.val # Null
    /\ last.val[1].Status = "unauthenticated"
    /\ last.val[1].LastAuthSuccessAt = Null

(***************************************************************************)
(* C5: a step of UpdateUserStatus(c, s) leaves tokens, subscriptions,      *)
(* notifications and every other user row as they were, creates no row,    *)
(* and in the row of c changes the status column only: the read after it   *)
(* shows status s and the three times the read before it showed.           *)
(***************************************************************************)
C5_UpdateStatusNarrow ==
    [][(last'.op = "UpdateUserStatus" /\ nops' = nops + 1)
         => /\ user_tokens' = user_tokens
            /\ search_subscriptions' = search_subscriptions
            /\ notifications' = notifications
            /\ \A c \in ChatIDs : c # last'.key => users'[c] = users[c]
            /\ users[last'.key] = Null => users'[last'.key] = Null
            /\ users[last'.key] # Null
                 => LET before == UserLookup(impl, users, last'.key).val[1]
                        after == UserLookup(impl, users', last'.key).val
                    IN  /\ after # Null
                        /\ after[1].CreatedAt = before.CreatedAt
                        /\ after[1].LastAuthSuccessAt
                              = before.LastAuthSuccessAt
                        /\ after[1].LastAuthFailureAt
                              = before.LastAuthFailureAt
                        /\ after[1].Status = IF last'.err = "nil"
                                             THEN last'.arg[1]
                                             ELSE before.Status]_vars

\* the status of a row with a last-success time was changed while the
\* other three tables held rows
C5_Witness ==
    /\ last.op = "UpdateUserStatus"
    /\ last.err = "nil"
    /\ last.prev # Null
    /\ last.prev[1].status # last.arg[1]
    /\ last.prev[1].last_auth_success_at # Null
    /\ users[last.key][1].status = last.arg[1]
    /\ users[last.key][1].last_auth_success_at
          = last.prev[1].last_auth_success_at
    /\ \E c \in ChatIDs : user_tokens[c] # Null
    /\ search_subscriptions # {}
    /\ notifications # {}

(***************************************************************************)
(* C6: CreateSearchSubscription always yields, in the stored row and in    *)
(* the entity handed back, is_active = true, created_at = the current time *)
(* and a non-empty id, whatever id, is_active and created_at the caller    *)
(* passed.                                                                 *)
(***************************************************************************)
C6_CreateIsAuthoritative ==
    (last.op = "CreateSearchSubscription" /\ last.err = "nil")
       => /\ last.ent[1].ID # ""
          /\ last.ent[1].IsActive
          /\ last.ent[1].CreatedAt = last.now
          /\ \E r \in search_subscriptions :
                /\ r.id = last.ent[1].ID
                /\ r.id # ""
                /\ r.is_active
                /\ r.created_at = EncodeTime(impl, last.now)

C9_DeleteIdempotent ==
    [][(/\ nops' = nops + 1
        /\ last'.op \in {"DeleteUserTokens", "DeleteSearchSubscription"}
        /\ initErr' = "nil"
        /\ ~last'.fail)
         => /\ last'.err = "nil"
            /\ users' = users
            /\ notifications' = notifications
            /\ IF last'.op = "DeleteUserTokens"
               THEN /\ search_subscriptions' = search_subscriptions
                    /\ user_tokens'[last'.key] = Null
                    /\ \A c \in ChatIDs :
                          c # last'.key => user_tokens'[c] = user_tokens[c]
               ELSE /\ user_tokens' = user_tokens
                    /\ ~\E r \in search_subscriptions' : r.id = last'.key
                    /\ \A r \in search_subscriptions :
                          r.id # last'.key => r \in search_subscriptions'
                    /\ search_subscriptions' \subseteq search_subscriptions
       ]_vars

\* the second of two deletes of the token set of chat 1 in a store that
\* holds rows in the other tables
C9_Witness ==
    /\ last.op = "DeleteUserTokens"
    /\ last.key = 1
    /\ nops = 2
    /\ last.err = "nil"
    /\ last.prev = Null
    /\ users[1] # Null
    /\ search_subscriptions # {}
    /\ notifications # {}

(***************************************************************************)
(* C10: StoreUserTokens always writes updated_at = the current time,       *)
(* writes created_at = the current time only when the caller's created_at  *)
(* is not set and the caller's created_at otherwise, and a store over an   *)
(* existing row keeps that row's created_at.                               *)
(***************************************************************************)
C10_StoreTimestamps ==
    (last.op = "StoreUserTokens" /\ last.err = "nil")
       => LET row == user_tokens[last.key][1]
              a == last.arg[1]
          IN  /\ row.updated_at = EncodeTime(impl, last.now)
              /\ row.created_at = IF IsZero(a.CreatedAt)
                                  THEN EncodeTime(impl, last.now)
                                  ELSE EncodeTime(impl, a.CreatedAt)
              /\ last.prev # Null
                    => row.created_at = last.prev[1].created_at

(***************************************************************************)
(* C11: there is at most one token row per chat identity; after            *)
(* StoreUserTokens(t) the read of t's chat id returns t's access token,    *)
(* refresh token, external user id and both auxiliary tokens, none         *)
(* surviving from the row before; after DeleteUserTokens(c) the read of c  *)
(* returns ErrTokensNotFound.                                              *)
(***************************************************************************)
C11_StoreOverwritesDeleteRemoves ==
    /\ \A c \in ChatIDs : Len(user_tokens[c]) <= 1
    /\ (last.op = "StoreUserTokens" /\ last.err = "nil")
          => LET t == last.arg[1]
                 r == TokensLookup(impl, user_tokens, last.key)
             IN  /\ r.err = "nil"
                 /\ r.val # Null
                 /\ r.val[1].TelegramChatID = t.TelegramChatID
                 /\ r.val[1].AccessToken = t.AccessToken
                 /\ r.val[1].RefreshToken = t.RefreshToken
                 /\ r.val[1].UserID = t.UserID
                 /\ r.val[1].Datadome = t.Datadome
                 /\ r.val[1].AppToken = t.AppToken
    /\ (last.op = "DeleteUserTokens" /\ last.err = "nil")
          => TokensLookup(impl, user_tokens, last.key) =
                [err |-> "ErrTokensNotFound", val |-> Null]
    /\ (last.op = "GetUserTokens" /\ Executed /\ user_tokens[last.key] = Null)
          => last.err = "ErrTokensNotFound" /\ last.val = Null

(***************************************************************************)
(* C13: StoreUserTokens writes a blank auxiliary token as NULL, never as   *)
(* an empty string, and a non-blank one as a present value; the read of    *)
(* the row returns both auxiliary tokens as they were stored, blank or     *)
(* not.                                                                    *)
(***************************************************************************)
C13_AuxiliaryTokensRoundTrip ==
    (last.op = "StoreUserTokens" /\ last.err = "nil")
       => LET t == last.arg[1]
              row == user_tokens[last.key][1]
              r == TokensLookup(impl, user_tokens, last.key)
          IN  /\ row.datadome = IF t.Datadome = "" THEN Null
                                ELSE Some(t.Datadome)
              /\ row.app_token = IF t.AppToken = "" THEN Null
                                 ELSE Some(t.AppToken)
              /\ r.val # Null
              /\ r.val[1].Datadome = t.Datadome
              /\ r.val[1].AppToken = t.AppToken

\* the rows the WHERE clause of the scan just made selects
Matching ==
    IF last.op = "GetActiveUsers"
    THEN {users[c][1] : c \in {k \in ChatIDs :
                                  /\ users[k] # Null
                                  /\ users[k][1].status = "active"}}
    ELSE IF last.op = "GetSearchSubscriptionsByUser"
    THEN {r \in search_subscriptions : r.telegram_chat_id = last.key}
    ELSE {r \in search_subscriptions : r.is_active = TRUE}

(***************************************************************************)
(* C15: GetActiveUsers, GetSearchSubscriptionsByUser and                   *)
(* GetActiveSubscriptions never return a not-found error; when the         *)
(* statement executed they return no error and the scan of every matching  *)
(* row exactly once, in the order the store returned the rows, which is    *)
(* the empty sequence when no row matches.                                 *)
(***************************************************************************)
C15_ScansNeverNotFound ==
    last.op \in {"GetActiveUsers", "GetSearchSubscriptionsByUser",
                 "GetActiveSubscriptions"}
       => /\ last.err \notin {"ErrUserNotFound", "ErrTokensNotFound",
                               "ErrSubscriptionNotFound"}
          /\ Executed
                => /\ last.err = "nil"
                   /\ last.val # Null
                   /\ Len(last.val[1]) = Cardinality(Matching)
                   /\ Len(last.prev) = Len(last.val[1])
                   /\ {last.prev[k] : k \in 1..Len(last.prev)} = Matching
                   /\ \A k \in 1..Len(last.prev) :
                         last.val[1][k] =
                            IF last.op = "GetActiveUsers"
                            THEN ScanUser(impl, last.prev[k])
                            ELSE ScanSubscription(impl, last.prev[k])
                   /\ Matching = {} => last.val[1] = <<>>

\* the scan of chat 1 returned the subscription created in this process
\* before the one an earlier process had left
C15_Witness ==
    /\ last.op = "GetSearchSubscriptionsByUser"
    /\ last.key = 1
    /\ last.err = "nil"
    /\ Len(last.val[1]) = 2
    /\ last.val[1][1].ID = "uuid-1"
    /\ last.val[1][2].ID = "sub-a"

\* the results GetSearchSubscriptionsByUser(c) can return in this state
ListByUser(c) ==
    {SubscriptionsResult(impl, q) :
        q \in Orderings(RowsOfChat(search_subscriptions, c))}
\* a create without id for a chat that had no subscription just succeeded
CreatedFirst ==
    /\ last.op = "CreateSearchSubscription"
    /\ last.err = "nil"
    /\ last.arg[1].ID = ""
    /\ \A r \in RowsOfChat(search_subscriptions, last.arg[1].TelegramChatID) :
          r.id = last.ent[1].ID
\* the ids of the subscriptions of chat c in a table
IdsOfChat(tbl, c) == {r.id : r \in RowsOfChat(tbl, c)}

\* C16 as stated: the single entry listed after the first create for a
\* chat equals the subscription create handed back, field by field.
C16_ListEqualsCreated ==
    CreatedFirst
       => \A res \in ListByUser(last.arg[1].TelegramChatID) :
             res = [err |-> "nil", val |-> Some(<<last.ent[1]>>)]

(***************************************************************************)
(* C16 (amended): after a create without id for a chat that had no         *)
(* subscription, the list of that chat has exactly one entry; it equals    *)
(* the subscription create handed back in every field but two: the         *)
(* creation time, equal to the one handed back when the column represents  *)
(* it exactly and is cut to whole microseconds by repository.go, and the   *)
(* seat count, which is the one handed back reduced to 32 bits.  In every  *)
(* state a list of chat c returns one entry per row of c and none of       *)
(* another chat, and in every step the ids of c's rows are those before    *)
(* the step plus the id just created for c minus the id just deleted.      *)
(***************************************************************************)
C16_ListAfterCreate ==
    /\ [](CreatedFirst
            => \A res \in ListByUser(last.arg[1].TelegramChatID) :
                  /\ res.err = "nil"
                  /\ Len(res.val[1]) = 1
                  /\ [res.val[1][1] EXCEPT !.CreatedAt = ZeroTime,
                                           !.RequestedSeats = GoInt(0)] =
                        [last.ent[1] EXCEPT !.CreatedAt = ZeroTime,
                                            !.RequestedSeats = GoInt(0)]
                  /\ res.val[1][1].RequestedSeats =
                        IntFromInt32(Int32Value(last.ent[1].RequestedSeats))
                  /\ Representable(impl, last.ent[1].CreatedAt)
                        => res.val[1][1].CreatedAt = last.ent[1].CreatedAt
                  /\ impl = "repository"
                        => res.val[1][1].CreatedAt =
                              [last.ent[1].CreatedAt EXCEPT
                                  !.nsec = (@ \div 1000) * 1000])
    /\ [](\A c \in ChatIDs : \A res \in ListByUser(c) :
             /\ \A k \in 1..Len(res.val[1]) :
                   res.val[1][k].TelegramChatID = c
             /\ {res.val[1][k].ID : k \in 1..Len(res.val[1])} =
                   IdsOfChat(search_subscriptions, c)
             /\ Len(res.val[1]) = Cardinality(RowsOfChat(search_subscriptions,
                                                         c)))
    /\ [][\A c \in ChatIDs :
             IdsOfChat(search_subscriptions', c) =
                (IdsOfChat(search_subscriptions, c)
                    \cup (IF /\ last'.op = "CreateSearchSubscription"
                             /\ last'.err = "nil"
                             /\ last'.arg[1].TelegramChatID = c
                             /\ nops' # nops
                          THEN {last'.ent[1].ID} ELSE {}))
                \ (IF /\ last'.op = "DeleteSearchSubscription"
                      /\ last'.err = "nil"
                      /\ nops' # nops
                   THEN {last'.key} ELSE {})]_vars

\* chat 2 had no subscription; repository.go created one without id and
\* the list of chat 2 is that one entry, active, with the generated id
C16_Witness ==
    /\ CreatedFirst
    /\ impl = "repository"
    /\ last.arg[1].TelegramChatID = 2
    /\ ~last.arg[1].IsActive
    /\ search_subscriptions # RowsOfChat(search_subscriptions, 2)
    /\ \E res \in ListByUser(2) :
          /\ Len(res.val[1]) = 1
          /\ res.val[1][1].ID = "uuid-1"
          /\ res.val[1][1].IsActive
          /\ res.val[1][1].CreatedAt # last.ent[1].CreatedAt

(***************************************************************************)
(* C17: a successful CreateNotification stores one row under a non-empty   *)
(* id, the caller's when one was supplied and a new one otherwise, with    *)
(* created_at the current time and status "sent" whatever the caller       *)
(* supplied, and with the caller's chat identity, subscription id, trip id *)
(* and message id.                                                         *)
(***************************************************************************)
C17_CreateNotificationForces ==
    (last.op = "CreateNotification" /\ last.err = "nil")
       => LET n == last.arg[1]
              rows == RowsWithId(notifications, last.ent[1].ID)
          IN  /\ Cardinality(rows) = 1
              /\ \A r \in rows :
                    /\ r.id # ""
                    /\ n.ID # "" => r.id = n.ID
                    /\ r.created_at = EncodeTime(impl, last.now)
                    /\ r.status = "sent"
                    /\ r.telegram_chat_id = n.TelegramChatID
                    /\ r.subscription_id = n.SubscriptionID
                    /\ r.trip_id = n.TripID
                    /\ IntFromInt32(r.telegram_message_id) =
                          n.TelegramMessageID

(***************************************************************************)
(* C19: every subscription row has requested_seats >= 1, and the seat      *)
(* count a successful create stored is the caller's seat count, also when  *)
(* that lies outside the signed 32-bit range of the column.                *)
(***************************************************************************)
C19_SeatsAtLeastOne ==
    /\ \A r \in search_subscriptions : r.requested_seats >= 1
    /\ (last.op = "CreateSearchSubscription" /\ last.err = "nil")
          => \A r \in RowsWithId(search_subscriptions, last.ent[1].ID) :
                IntFromInt32(r.requested_seats) = last.arg[1].RequestedSeats

(***************************************************************************)
(* Concurrent callers of the de-duplication protocol: each caller looks    *)
(* its triple up with GetNotificationByTrip and calls CreateNotification   *)
(* only when the lookup returned no notification.  Each call is one        *)
(* statement in its own serializable transaction; nothing ties the two     *)
(* calls of a caller together.                                             *)
(***************************************************************************)
Workers == 1..NumWorkers
DedupTriples == {<<1, "sub-a", "trip-99">>, <<1, "sub-a", "trip-7">>}

\* GetNotificationByTrip by caller w
WorkerLookup(w) ==
    /\ wk[w].pc = "idle"
    \* the id the caller passes: none, or one of its own
    /\ \E k \in DedupTriples,
          id \in {"", <<"notif-w1", "notif-w2", "notif-w3", "notif-w4">>[w]} :
         /\ GetNotificationByTripCall(k[1], k[2], k[3], FALSE, TRUE)
         /\ wk' = [wk EXCEPT ![w] =
                      [pc |-> IF last'.val = Null THEN "looked" ELSE "done",
                       key |-> k, id |-> id, found |-> last'.val # Null]]
         /\ overlap' = (overlap \/ (/\ last'.val = Null
                                    /\ \E v \in Workers \ {w} :
                                          /\ wk[v].pc = "looked"
                                          /\ wk[v].key = k))
    /\ UNCHANGED <<impl, callVars, storeVars, clock, nextUuid, nops, tx>>

\* CreateNotification by caller w, after its lookup found nothing
WorkerCreate(w) ==
    /\ wk[w].pc = "looked"
    /\ CreateNotificationCall(
          Notification(wk[w].id, wk[w].key, 7, "", ZeroTime), FALSE, TRUE)
    /\ wk' = [wk EXCEPT ![w].pc = "done"]
    /\ UNCHANGED <<impl, callVars, users, user_tokens, search_subscriptions,
                   clock, nops, overlap, tx>>

InitDedup ==
    /\ impl \in Impls
    /\ env = [endpoint |-> "set", database |-> "set"]
    /\ onceState = "done"
    /\ db = 1
    /\ initErr = "nil"
    /\ endpoint = "set"
    /\ database = "set"
    /\ initCount = 1
    /\ envReads = 2
    /\ openCount = 1
    /\ pc = [p \in Callers |-> "idle"]
    /\ observed = {}
    /\ users = [c \in ChatIDs |-> Null]
    /\ user_tokens = [c \in ChatIDs |-> Null]
    /\ search_subscriptions = {}
    /\ notifications = {}
    /\ clock = 0
    /\ nextUuid = 0
    /\ nops = 0
    /\ last = NoLast
    /\ wk = [w \in Workers |->
               [pc |-> "idle", key |-> <<>>, id |-> "", found |-> FALSE]]
    /\ overlap = FALSE
    /\ tx = NoTx

NextDedup ==
    \/ \E w \in Workers : WorkerLookup(w)
    \/ \E w \in Workers : WorkerCreate(w)

SpecDedup == InitDedup /\ [][NextDedup]_vars

\* C8 as stated: under any interleaving of callers that create only after
\* an empty lookup, the notifications table holds at most one row per
\* de-duplication triple.
C8_AtMostOnePerTriple ==
    \A k \in DedupTriples :
       Cardinality({r \in notifications :
                       /\ r.telegram_chat_id = k[1]
                       /\ r.subscription_id = k[2]
                       /\ r.trip_id = k[3]}) <= 1

(***************************************************************************)
(* C8 (amended): the notifications table holds at most one row per         *)
(* de-duplication triple as long as no caller ran its lookup of a triple   *)
(* while another caller was between its own empty lookup of that triple    *)
(* and its create; the layer itself does not keep two such callers from    *)
(* both inserting.                                                         *)
(***************************************************************************)
C8_AtMostOneWithoutOverlap == ~overlap => C8_AtMostOnePerTriple

\* two callers handled the same triple one after the other: the first
\* created the row, the second found it
C8_Witness ==
    /\ ~overlap
    /\ \E v, w \in Workers :
          /\ v # w
          /\ wk[v].pc = "done" /\ wk[w].pc = "done"
          /\ wk[v].key = wk[w].key
          /\ ~wk[v].found /\ wk[w].found
          /\ Cardinality({r \in notifications :
                             /\ r.telegram_chat_id = wk[v].key[1]
                             /\ r.subscription_id = wk[v].key[2]
                             /\ r.trip_id = wk[v].key[3]}) = 1

(***************************************************************************)
(* The optional-timestamp codec on its own: an optional time is encoded    *)
(* as the parameter UpsertUser binds for last_auth_success_at and the      *)
(* column value is decoded as GetUserByTelegramChatID decodes it.          *)
(***************************************************************************)
MaxEra == 2

\* the parameter bound for an optional time, and the decoding of the column
OptionalTimeValue(i, o) ==
    IF i = "repository" THEN RepoOptionalTimestamp(o) ELSE optionalDatetime(o)
ScanOptionalTime(i, v) ==
    IF i = "repository" THEN RepoScanOptionalTime(v)
    ELSE IfaceScanOptionalTime(v)

\* present at second-level precision
SecondPrecision(o) == o = Null \/ o[1].nsec = 0
\* the Unix second count fits the unsigned 32-bit field of a Datetime
FitsUint32(o) == o = Null \/ o[1].era \in {0, 1}

\* the caller binds the optional time as a statement parameter
Encode ==
    /\ last.op = "none"
    /\ last' = [last EXCEPT !.op = "encode",
                            !.val = OptionalTimeValue(impl, last.arg)]
    /\ UNCHANGED <<impl, connVars, callVars, storeVars, clock, nextUuid, nops,
                   wk, overlap, tx>>

\* the column value comes back in a result row and is decoded
Decode ==
    /\ last.op = "encode"
    /\ last' = [last EXCEPT !.op = "decode", !.ent = last.val,
                            !.val = ScanOptionalTime(impl, last.val)]
    /\ UNCHANGED <<impl, connVars, callVars, storeVars, clock, nextUuid, nops,
                   wk, overlap, tx>>

InitCodec ==
    /\ impl \in Impls
    /\ InitConnVars
    /\ pc = [p \in Callers |-> "idle"]
    /\ observed = {}
    /\ users = [c \in ChatIDs |-> Null]
    /\ user_tokens = [c \in ChatIDs |-> Null]
    /\ search_subscriptions = {}
    /\ notifications = {}
    /\ clock = 0
    /\ nextUuid = 0
    /\ nops = 0
    \* optional times a caller can hold: absent, or a time before 1970,
    \* inside the 32-bit seconds range (eras 0 and 1) or after 2106, with or
    \* without a sub-second part
    /\ \E o \in {Null} \cup {Some([era |-> e, off |-> f, nsec |-> n]) :
                                e \in -1..MaxEra,
                                f \in {0, 1, 1600000000, 2147483647},
                                n \in {0, 1000, 1}} :
          last = [NoLast EXCEPT !.arg = o]
    /\ wk = <<>>
    /\ overlap = FALSE
    /\ tx = NoTx

SpecCodec == InitCodec /\ [][(Encode \/ Decode)]_vars

\* C12 as stated: every optional time at second-level precision decodes
\* from its encoding unchanged, times before 1970 and after 2106 included,
\* and absent is encoded as null and null decoded as absent.
C12_RoundTripAnySecond ==
    /\ last.op = "encode" => ((last.val = Null) <=> (last.arg = Null))
    /\ (last.op = "decode" /\ SecondPrecision(last.arg))
          => last.val = last.arg

(***************************************************************************)
(* C12 (amended): an optional time that is absent, or present at           *)
(* second-level precision with a Unix second count that fits the unsigned  *)
(* 32-bit seconds field, decodes from its encoding unchanged; absent is    *)
(* encoded as an explicit null and null is decoded as absent.              *)
(***************************************************************************)
C12_RoundTripInRange ==
    /\ last.op = "encode" => ((last.val = Null) <=> (last.arg = Null))
    /\ last.op = "decode" => ((last.val = Null) <=> (last.ent = Null))
    /\ (last.op = "decode" /\ SecondPrecision(last.arg)
          /\ FitsUint32(last.arg))
          => last.val = last.arg

\* the last second of era 1 (year 2106) went through the Datetime codec
C12_Witness ==
    /\ impl = "interface"
    /\ last.op = "decode"
    /\ last.arg = Some([era |-> 1, off |-> 2147483647, nsec |-> 0])
    /\ last.val = last.arg

(***************************************************************************)
(* YDBClient.DoTx: Table().Do runs the closure, which begins a             *)
(* transaction, defers its rollback, runs the unit of work fn and commits  *)
(* when fn returned nil.  Statements fn executes on the transaction are    *)
(* buffered by the store until the commit.                                 *)
(***************************************************************************)
MaxAttempts == 2

\* the statements of the unit of work: a subscription and its first
\* notification
TxWrites ==
    <<[tbl |-> "search_subscriptions",
       row |-> IfaceSubscriptionRow(
                  Subscription("sub-tx", 1, 1, TRUE, WholeSecond))],
      [tbl |-> "notifications",
       row |-> IfaceNotificationRow(
                  Notification("notif-tx", <<1, "sub-tx", "trip-99">>, 7,
                               "sent", WholeSecond))]>>
TxRows(t) == {TxWrites[i].row : i \in {j \in 1..Len(TxWrites) :
                                          TxWrites[j].tbl = t}}
BufRows(buf, t) == {w.row : w \in {v \in buf : v.tbl = t}}

\* if err := fn(ctx, tx); err != nil { return err }; return tx.Commit(ctx)
AfterFnAlwaysCommit(out) == "commit"
AfterFn(out) == IF out = "nil" THEN "commit" ELSE "deferred"

\* Table().Do enters the closure: the result of the empty Execute is
\* dropped, then s.BeginTransaction; on its error the closure returns
\* before the rollback is deferred
DoTxBegin(beginOk) ==
    /\ tx.pc = "idle"
    /\ tx.attempts < MaxAttempts
    /\ tx' = [tx EXCEPT !.attempts = @ + 1,
                        !.began = beginOk,
                        !.pc = IF beginOk THEN "fn" ELSE "returned",
                        !.ret = IF beginOk THEN "none" ELSE "ErrBegin"]
    /\ UNCHANGED <<impl, connVars, callVars, storeVars, clock, nextUuid, nops,
                   last, wk, overlap>>

\* fn executes its next statement on the transaction
DoTxExecute ==
    /\ tx.pc = "fn"
    /\ Cardinality(tx.buf) < Len(TxWrites)
    /\ tx' = [tx EXCEPT !.buf = @ \cup {TxWrites[Cardinality(tx.buf) + 1]}]
    /\ UNCHANGED <<impl, connVars, callVars, storeVars, clock, nextUuid, nops,
                   last, wk, overlap>>

\* fn returns or panics
DoTxFnReturn(out) ==
    /\ tx.pc = "fn"
    /\ tx' = [tx EXCEPT !.fn = out,
                        !.pc = AfterFn(out),
                        !.ret = IF out = "nil" THEN "none" ELSE out]
    /\ UNCHANGED <<impl, connVars, callVars, storeVars, clock, nextUuid, nops,
                   last, wk, overlap>>

\* return tx.Commit(ctx): on success the store applies the buffered
\* statements at once
DoTxCommit(commitOk) ==
    /\ tx.pc = "commit"
    /\ tx' = [tx EXCEPT !.committed = commitOk,
                        !.ret = IF commitOk THEN "nil" ELSE "ErrCommit",
                        !.pc = "deferred"]
    /\ search_subscriptions' =
          IF commitOk
          THEN search_subscriptions \cup BufRows(tx.buf, "search_subscriptions")
          ELSE search_subscriptions
    /\ notifications' =
          IF commitOk
          THEN notifications \cup BufRows(tx.buf, "notifications")
          ELSE notifications
    /\ UNCHANGED <<impl, connVars, callVars, users, user_tokens, clock,
                   nextUuid, nops, last, wk, overlap>>

\* defer tx.Rollback(ctx) runs when the closure returns or panics; what
\* the store still buffers for the transaction is discarded
DoTxRollback ==
    /\ tx.pc = "deferred"
    /\ tx' = [tx EXCEPT !.rollbacks = @ + 1, !.pc = "returned"]
    /\ UNCHANGED <<impl, connVars, callVars, storeVars, clock, nextUuid, nops,
                   last, wk, overlap>>

\* Table().Do runs the closure again after an error it may retry
DoTxRetry ==
    /\ tx.pc = "returned"
    \* errors after which Table().Do runs the closure again
    /\ tx.ret \in {"ErrBegin", "ErrFn", "ErrCommit"}
    /\ tx.attempts < MaxAttempts
    /\ tx' = [NoTx EXCEPT !.attempts = tx.attempts]
    /\ UNCHANGED <<impl, connVars, callVars, storeVars, clock, nextUuid, nops,
                   last, wk, overlap>>

InitTx ==
    /\ impl = "interface"
    /\ env = [endpoint |-> "set", database |-> "set"]
    /\ onceState = "done"
    /\ db = 1
    /\ initErr = "nil"
    /\ endpoint = "set"
    /\ database = "set"
    /\ initCount = 1
    /\ envReads = 2
    /\ openCount = 1
    /\ pc = [p \in Callers |-> "idle"]
    /\ observed = {}
    /\ \E seeded \in BOOLEAN :
         IF seeded
         THEN /\ users = SeedUsers(impl)
              /\ user_tokens = SeedTokens(impl)
              /\ search_subscriptions = SeedSubscriptions(impl)
              /\ notifications = SeedNotifications(impl)
         ELSE /\ users = [c \in ChatIDs |-> Null]
              /\ user_tokens = [c \in ChatIDs |-> Null]
              /\ search_subscriptions = {}
              /\ notifications = {}
    /\ clock = 0
    /\ nextUuid = 0
    /\ nops = 0
    /\ last = NoLast
    /\ wk = <<>>
    /\ overlap = FALSE
    /\ tx = NoTx

NextTx ==
    \/ \E ok \in BOOLEAN : DoTxBegin(ok)
    \/ DoTxExecute
    \* what fn can do: return nil, return an error, panic
    \/ \E out \in {"nil", "ErrFn", "panic"} : DoTxFnReturn(out)
    \/ \E ok \in BOOLEAN : DoTxCommit(ok)
    \/ DoTxRollback
    \/ DoTxRetry

SpecTx == InitTx /\ [][NextTx]_vars

\* the rows of the unit of work the tables hold
TxVisible ==
    (search_subscriptions \cap TxRows("search_subscriptions"))
       \cup (notifications \cap TxRows("notifications"))

(***************************************************************************)
(* C14: the transaction is committed only if fn returned nil; once the     *)
(* transaction has begun the deferred rollback has run on every exit path  *)
(* (fn returned an error, fn panicked, the commit failed, the commit       *)
(* succeeded); the statements fn executed are in the tables exactly when   *)
(* the commit succeeded, all of them or none.                              *)
(***************************************************************************)
C14_AllOrNothing ==
    /\ tx.committed => tx.fn = "nil"
    /\ tx.pc \in {"commit"} => tx.fn = "nil"
    /\ (tx.pc = "returned" /\ tx.began) => tx.rollbacks = 1
    /\ (tx.pc = "returned" /\ ~tx.began) => tx.rollbacks = 0
    /\ TxVisible = IF tx.committed
                   THEN BufRows(tx.buf, "search_subscriptions")
                           \cup BufRows(tx.buf, "notifications")
                   ELSE {}
    /\ (tx.pc = "returned") => ((tx.ret = "nil") <=> tx.committed)

\* a second attempt, after a failed one, executed both statements and
\* committed; the rollback ran after the commit
C14_Witness ==
    /\ tx.pc = "returned"
    /\ tx.attempts = 2
    /\ tx.committed
    /\ tx.rollbacks = 1
    /\ Cardinality(TxVisible) = 2

(***************************************************************************)
(* Concurrent callers of UpdateSubscriptionLastChecked: a call reads       *)
(* time.Now() while it builds the parameters and the store executes the    *)
(* UPDATE later; calls of other callers and clock ticks come in between.   *)
(***************************************************************************)
\* caller w builds the parameters of its call: time.Now() is read
TouchRead(w) ==
    /\ wk[w].pc = "idle"
    /\ nops < MaxOps
    /\ nops' = nops + 1
    /\ \E id \in SubscriptionIds :
          wk' = [wk EXCEPT ![w] = [pc |-> "read", id |-> id, now |-> Now]]
    /\ UNCHANGED <<impl, connVars, callVars, storeVars, clock, nextUuid, last,
                   overlap, tx>>

\* the store executes the UPDATE of caller w
TouchExecute(w) ==
    /\ wk[w].pc = "read"
    /\ UpdateSubscriptionLastCheckedCall(wk[w].id, wk[w].now, FALSE, TRUE)
    /\ wk' = [wk EXCEPT ![w].pc = "idle"]
    /\ UNCHANGED <<impl, callVars, users, user_tokens, notifications, clock,
                   nextUuid, nops, overlap, tx>>

InitTouch ==
    /\ impl \in Impls
    /\ env = [endpoint |-> "set", database |-> "set"]
    /\ onceState = "done"
    /\ db = 1
    /\ initErr = "nil"
    /\ endpoint = "set"
    /\ database = "set"
    /\ initCount = 1
    /\ envReads = 2
    /\ openCount = 1
    /\ pc = [p \in Callers |-> "idle"]
    /\ observed = {}
    /\ users = SeedUsers(impl)
    /\ user_tokens = SeedTokens(impl)
    /\ search_subscriptions = SeedSubscriptions(impl)
    /\ notifications = SeedNotifications(impl)
    /\ clock = 0
    /\ nextUuid = 0
    /\ nops = 0
    /\ last = NoLast
    /\ wk = [w \in Workers |-> [pc |-> "idle", id |-> "", now |-> ZeroTime]]
    /\ overlap = FALSE
    /\ tx = NoTx

NextTouch ==
    \/ Tick
    \/ \E w \in Workers : TouchRead(w)
    \/ \E w \in Workers : TouchExecute(w)

SpecTouch == InitTouch /\ [][NextTouch]_vars

\* a column time is not later than another (same column type)
TimeValueLeq(a, b) ==
    \/ a.era < b.era
    \/ a.era = b.era /\ a.off < b.off
    \/ a.era = b.era /\ a.off = b.off
          /\ (impl = "repository" => a.usec <= b.usec)

(***************************************************************************)
(* C18: in every step, sequential or interleaved, a subscription's         *)
(* last_checked_at does not change to an earlier value than it held, and   *)
(* no other column of a subscription changes.                              *)
(***************************************************************************)
C18_LastCheckedOnlyAdvances ==
    [][\A r \in search_subscriptions :
          \E n \in search_subscriptions' :
             /\ [n EXCEPT !.last_checked_at = Null] =
                   [r EXCEPT !.last_checked_at = Null]
             /\ r.last_checked_at # Null
                   => /\ n.last_checked_at # Null
                      /\ TimeValueLeq(r.last_checked_at[1],
                                      n.last_checked_at[1])]_vars

(***************************************************************************)
(* Concurrent callers of UpsertUser.  A call builds its parameters, the    *)
(* creation time among them, and then has the store execute one UPSERT in  *)
(* its own serializable transaction; the store executes the statements of  *)
(* concurrent callers one after another in any order.  Status writes and   *)
(* the two deleting operations of the layer run beside them.               *)
(***************************************************************************)

\* caller w enters UpsertUser: now := time.Now() and the CreatedAt default
UpsertRead(w) ==
    /\ wk[w].pc = "idle"
    /\ \E u \in {User(1, "unauthenticated", ZeroTime, Null, Null),
                 User(1, "active", WholeSecond, Some(WholeSecond), Null)} :
          wk' = [wk EXCEPT ![w] =
                    [pc |-> "ready", chat |-> u.TelegramChatID,
                     arg |-> Some(u),
                     ent |-> Some(IF impl = "repository"
                                  THEN RepoUpsertUserEntity(u, Now) ELSE u)]]
    /\ UNCHANGED <<impl, connVars, callVars, storeVars, clock, nextUuid, nops,
                   last, overlap, tx>>

\* the store executes the UPSERT of caller w
UpsertExecute(w) ==
    /\ wk[w].pc = "ready"
    /\ users' = UpsertUserRows(users, UserRow(impl, wk[w].ent[1]))
    /\ last' = [op |-> "UpsertUser", key |-> wk[w].chat, arg |-> wk[w].arg,
                ent |-> wk[w].ent, err |-> "nil", val |-> Null,
                prev |-> users[wk[w].chat], fail |-> FALSE, now |-> Now]
    /\ wk' = [wk EXCEPT ![w] = [pc |-> "done", chat |-> wk[w].chat,
                                arg |-> Null, ent |-> Null]]
    /\ UNCHANGED <<impl, connVars, callVars, user_tokens,
                   search_subscriptions, notifications, clock, nextUuid, nops,
                   overlap, tx>>

InitUpserts ==
    /\ impl \in Impls
    /\ env = [endpoint |-> "set", database |-> "set"]
    /\ onceState = "done"
    /\ db = 1
    /\ initErr = "nil"
    /\ endpoint = "set"
    /\ database = "set"
    /\ initCount = 1
    /\ envReads = 2
    /\ openCount = 1
    /\ pc = [p \in Callers |-> "idle"]
    /\ observed = {}
    /\ users \in {SeedUsers(impl), [c \in ChatIDs |-> Null]}
    /\ user_tokens = SeedTokens(impl)
    /\ search_subscriptions = SeedSubscriptions(impl)
    /\ notifications = SeedNotifications(impl)
    /\ clock = 0
    /\ nextUuid = 0
    /\ nops = 0
    /\ last = NoLast
    /\ wk = [w \in Workers |->
                [pc |-> "idle", chat |-> 0, arg |-> Null, ent |-> Null]]
    /\ overlap = FALSE
    /\ tx = NoTx

NextUpserts ==
    \/ Tick
    \/ \E w \in Workers : UpsertRead(w)
    \/ \E w \in Workers : UpsertExecute(w)
    \/ \E c \in ChatIDs, st \in Statuses :
          UpdateUserStatus(c, st, FALSE, TRUE)
    \/ \E c \in ChatIDs : DeleteUserTokens(c, FALSE, TRUE)
    \/ \E id \in SubscriptionIds :
          DeleteSearchSubscription(id, FALSE, TRUE)

SpecUpserts == InitUpserts /\ [][NextUpserts]_vars

\* the rows of the users table that carry chat identity c
UserRowsOf(tbl, c) ==
    {r \in {tbl[k][1] : k \in {k \in ChatIDs : tbl[k] # Null}} :
        r.telegram_chat_id = c}

(***************************************************************************)
(* C20: there is exactly one user row per chat identity ever upserted.  In *)
(* every step, of sequential or concurrent callers: a chat identity that   *)
(* has a row keeps one (no operation removes a user row); a row appears    *)
(* only for the chat identity of the upsert just executed; after an        *)
(* executed upsert its chat identity has exactly one row and never two;    *)
(* and a status write that repeats the status write before it leaves the   *)
(* table as that one left it.                                              *)
(***************************************************************************)
C20_OneUserRowPerChat ==
    [][/\ \A c \in ChatIDs :
            /\ Cardinality(UserRowsOf(users', c)) <= 1
            /\ UserRowsOf(users, c) # {} => UserRowsOf(users', c) # {}
            /\ (UserRowsOf(users, c) = {} /\ UserRowsOf(users', c) # {})
                  => /\ last'.op = "UpsertUser"
                     /\ last'.key = c
                     /\ last'.err = "nil"
       /\ (last'.op = "UpsertUser" /\ last'.err = "nil")
             => Cardinality(UserRowsOf(users', last'.key)) = 1
       /\ (/\ last.op = "UpdateUserStatus"
           /\ last.err = "nil"
           /\ last'.op = "UpdateUserStatus"
           /\ last'.err = "nil"
           /\ last'.key = last.key
           /\ last'.arg = last.arg
           /\ nops' = nops + 1)
             => users' = users]_vars

\* two callers have upserted the same chat identity, one of them on a
\* clock reading the other did not see, and the table holds its one row
C20_Witness ==
    /\ \E v \in Workers, w \in Workers :
          /\ v # w
          /\ wk[v].pc = "done"
          /\ wk[w].pc = "done"
          /\ wk[v].chat = 1
          /\ wk[w].chat = 1
    /\ last.op = "UpsertUser"
    /\ last.key = 1
    /\ clock > 0
    /\ Cardinality(UserRowsOf(users, 1)) = 1

(***************************************************************************)
(* Statement execution.  Every operation hands its statement to            *)
(* db.Table().Do (repository.go, directly; interface.go, through Query and *)
(* Exec), which runs the closure, and runs it again when the closure       *)
(* returned an error the driver classifies as retryable (an aborted        *)
(* transaction after a serialization conflict, an overloaded or            *)
(* unavailable store, a bad session), until the closure returns nil, a     *)
(* non-retryable error, or the budget of the call is used up.  The caller  *)
(* here calls UpdateUserStatus or GetUserByTelegramChatID.                 *)
(***************************************************************************)
NoCall == [pc |-> "idle", op |-> "none", key |-> 0, arg |-> Null,
           attempts |-> 0, failures |-> 0, ret |-> "none", val |-> Null]

\* the operation is entered: the connection is there, Do is called
DoCall(op, c, st) ==
    /\ wk.pc = "idle"
    /\ nops < MaxOps
    /\ nops' = nops + 1
    /\ wk' = [NoCall EXCEPT !.pc = "closure", !.op = op, !.key = c,
                            !.arg = IF op = "UpdateUserStatus"
                                    THEN Some(st) ELSE Null]
    /\ UNCHANGED <<impl, connVars, callVars, storeVars, clock, nextUuid,
                   last, overlap, tx>>

\* what Do does with the error the closure returned
AfterClosure(out, attempts) ==
    IF out = "ErrRetryable" /\ attempts < MaxAttempts
    THEN "closure" ELSE "returned"

\* Do runs the closure: s.Execute(ctx, txControl, query, params)
DoClosure(out) ==
    /\ wk.pc = "closure"
    /\ wk.attempts < MaxAttempts
    /\ wk' = [wk EXCEPT
                 !.attempts = @ + 1,
                 !.failures = IF out = "nil" THEN @ ELSE @ + 1,
                 !.pc = AfterClosure(out, wk.attempts + 1),
                 !.ret = out,
                 !.val = IF out = "nil" /\ wk.op = "GetUserByTelegramChatID"
                         THEN Some(UserLookup(impl, users, wk.key))
                         ELSE Null]
    /\ users' = IF out = "nil" /\ wk.op = "UpdateUserStatus"
                THEN UpdateUserStatusRows(users, wk.key, wk.arg[1])
                ELSE users
    /\ UNCHANGED <<impl, connVars, callVars, user_tokens,
                   search_subscriptions, notifications, clock, nextUuid,
                   nops, last, overlap, tx>>

\* if err != nil { return nil, err }, else the result of the operation
DoReturn ==
    /\ wk.pc = "returned"
    /\ last' = [op |-> wk.op, key |-> wk.key, arg |-> wk.arg, ent |-> Null,
                err |-> IF wk.ret # "nil" THEN wk.ret
                        ELSE IF wk.val = Null THEN "nil" ELSE wk.val[1].err,
                val |-> IF wk.ret # "nil" \/ wk.val = Null THEN Null
                        ELSE wk.val[1].val,
                prev |-> Some(wk.failures), fail |-> wk.ret # "nil",
                now |-> Now]
    /\ wk' = NoCall
    /\ UNCHANGED <<impl, connVars, callVars, storeVars, clock, nextUuid,
                   nops, overlap, tx>>

InitDo ==
    /\ impl \in Impls
    /\ env = [endpoint |-> "set", database |-> "set"]
    /\ onceState = "done"
    /\ db = 1
    /\ initErr = "nil"
    /\ endpoint = "set"
    /\ database = "set"
    /\ initCount = 1
    /\ envReads = 2
    /\ openCount = 1
    /\ pc = [p \in Callers |-> "idle"]
    /\ observed = {}
    /\ users \in {SeedUsers(impl), [c \in ChatIDs |-> Null]}
    /\ user_tokens = SeedTokens(impl)
    /\ search_subscriptions = SeedSubscriptions(impl)
    /\ notifications = SeedNotifications(impl)
    /\ clock = 0
    /\ nextUuid = 0
    /\ nops = 0
    /\ last = NoLast
    /\ wk = NoCall
    /\ overlap = FALSE
    /\ tx = NoTx

NextDo ==
    \/ \E c \in ChatIDs, st \in Statuses : DoCall("UpdateUserStatus", c, st)
    \/ \E c \in ChatIDs : DoCall("GetUserByTelegramChatID", c, "active")
    \/ \E out \in {"nil", "ErrRetryable", "ErrExec"} : DoClosure(out)
    \/ DoReturn

SpecDo == InitDo /\ [][NextDo]_vars

(***************************************************************************)
(* C21: a failed statement execution is returned to the caller as an error *)
(* of the same kind: an operation in which an execution failed does not    *)
(* return success or a result, and after a failed execution the statement  *)
(* is not executed again.                                                  *)
(***************************************************************************)
C21_FailuresReturnedNoRetry ==
    /\ (wk.pc = "returned" /\ wk.failures > 0)
          => wk.ret \in {"ErrRetryable", "ErrExec"}
    /\ wk.failures > 0 => wk.attempts = 1
    /\ (last.op \in {"UpdateUserStatus", "GetUserByTelegramChatID"}
          /\ last.prev # Null /\ last.prev[1] > 0)
          => last.err \in {"ErrRetryable", "ErrExec"} /\ last.val = Null

(***************************************************************************)
(* Callers in a process whose first GetConnection fails: a setting is      *)
(* missing, or ydb.Open fails under the first caller's context.  Later     *)
(* calls come with any context.                                            *)
(***************************************************************************)
FailingOutcomes ==
    IF onceState = "done" \/ MissingConfig(env.endpoint, env.database)
    THEN BOOLEAN ELSE {FALSE}

NextFailing ==
    \/ \E c \in ChatIDs, f \in BOOLEAN, o \in FailingOutcomes :
          GetUserByTelegramChatID(c, f, o)
    \/ \E u \in UserInputs, f \in BOOLEAN, o \in FailingOutcomes :
          UpsertUser(u, f, o)
    \/ \E c \in ChatIDs, st \in Statuses, f \in BOOLEAN,
          o \in FailingOutcomes : UpdateUserStatus(c, st, f, o)
    \/ \E f \in BOOLEAN, o \in FailingOutcomes : GetActiveUsers(f, o)
    \/ \E t \in TokensInputs, f \in BOOLEAN, o \in FailingOutcomes :
          StoreUserTokens(t, f, o)
    \/ \E c \in ChatIDs, f \in BOOLEAN, o \in FailingOutcomes :
          DeleteUserTokens(c, f, o)
    \/ \E c \in ChatIDs, f \in BOOLEAN, o \in FailingOutcomes :
          GetUserTokens(c, f, o)
    \/ \E sub \in SubscriptionInputs, f \in BOOLEAN, o \in FailingOutcomes :
          CreateSearchSubscription(sub, f, o)
    \/ \E id \in SubscriptionIds, f \in BOOLEAN, o \in FailingOutcomes :
          DeleteSearchSubscription(id, f, o)
    \/ \E id \in SubscriptionIds, f \in BOOLEAN, o \in FailingOutcomes :
          UpdateSubscriptionLastChecked(id, f, o)
    \/ \E id \in SubscriptionIds, a \in BOOLEAN, f \in BOOLEAN,
          o \in FailingOutcomes : SetSubscriptionActive(id, a, f, o)
    \/ \E c \in ChatIDs, f \in BOOLEAN, o \in FailingOutcomes :
          GetSearchSubscriptionsByUser(c, f, o)
    \/ \E f \in BOOLEAN, o \in FailingOutcomes : GetActiveSubscriptions(f, o)
    \/ \E n \in NotificationInputs, f \in BOOLEAN, o \in FailingOutcomes :
          CreateNotification(n, f, o)
    \/ \E k \in Triples, f \in BOOLEAN, o \in FailingOutcomes :
          GetNotificationByTrip(k[1], k[2], k[3], f, o)
    \/ \E id \in NotificationIds, f \in BOOLEAN, o \in FailingOutcomes :
          UpdateNotificationMessageID(id, GoInt(9), f, o)

SpecFailing == Init /\ [][NextFailing]_vars

(***************************************************************************)
(* C22: once the first GetConnection has failed, every operation returns   *)
(* the error that call left behind and no result, the initialization is    *)
(* not run again, no table changes, no id is generated, and the entity the *)
(* caller passed is as the caller passed it.                               *)
(***************************************************************************)
C22_FailedConnectionStopsEveryCall ==
    [][(nops' = nops + 1 /\ initErr' # "nil")
          => /\ last'.err = initErr'
             /\ last'.val = Null
             /\ last'.ent # Null => last'.ent = last'.arg
             /\ UNCHANGED <<storeVars, nextUuid>>
             /\ onceState = "done"
                   => UNCHANGED <<initErr, db, initCount, envReads,
                                  openCount>>]_vars

\* after an open that failed, a create of a subscription without id, called
\* with a context that would have opened the connection, fails the same way
C22_Witness ==
    /\ initErr = "ErrOpen"
    /\ nops = MaxOps
    /\ last.op = "CreateSearchSubscription"
    /\ last.arg[1].ID = ""
    /\ ~last.fail
    /\ last.err = "ErrOpen"
    /\ last.ent = last.arg
    /\ impl = "repository"

(***************************************************************************)
(* Callers of the narrow updates and of the two subscription lists.        *)
(***************************************************************************)
NextNarrow ==
    \/ \E c \in ChatIDs, st \in Statuses, f \in BOOLEAN, o \in OpenOutcomes :
          UpdateUserStatus(c, st, f, o)
    \/ \E id \in SubscriptionIds, a \in BOOLEAN, f \in BOOLEAN,
          o \in OpenOutcomes : SetSubscriptionActive(id, a, f, o)
    \/ \E id \in SubscriptionIds, f \in BOOLEAN, o \in OpenOutcomes :
          UpdateSubscriptionLastChecked(id, f, o)
    \/ \E id \in NotificationIds, f \in BOOLEAN, o \in OpenOutcomes :
          UpdateNotificationMessageID(id, GoInt(9), f, o)
    \/ \E c \in ChatIDs, f \in BOOLEAN, o \in OpenOutcomes :
          GetSearchSubscriptionsByUser(c, f, o)
    \/ \E f \in BOOLEAN, o \in OpenOutcomes : GetActiveSubscriptions(f, o)

SpecNarrow == Init /\ [][NextNarrow]_vars

(***************************************************************************)
(* C23: a narrow update (UpdateUserStatus, SetSubscriptionActive,          *)
(* UpdateSubscriptionLastChecked, UpdateNotificationMessageID) whose       *)
(* statement executed returns no error also when its key has no row, and   *)
(* then the whole store is unchanged; it never creates or removes a row,   *)
(* leaves the other tables and the other rows as they were, and in the     *)
(* row of its key changes the named column only (so a notification keeps   *)
(* its chat identity, subscription id and trip id).  After a successful    *)
(* SetSubscriptionActive(id, false) on an existing subscription, the next  *)
(* GetActiveSubscriptions does not list id and the next                    *)
(* GetSearchSubscriptionsByUser of its chat identity does.                 *)
(***************************************************************************)
C23_NarrowUpdates ==
    [][(nops' = nops + 1 /\ initErr' = "nil")
         => /\ last'.op \in {"UpdateUserStatus", "SetSubscriptionActive",
                             "UpdateSubscriptionLastChecked",
                             "UpdateNotificationMessageID"}
                  => (last'.err = "nil" <=> ~last'.fail)
            /\ last'.op = "UpdateUserStatus"
                  => /\ UNCHANGED <<user_tokens, search_subscriptions,
                                    notifications>>
                     /\ \A c \in ChatIDs :
                           /\ users[c] = Null <=> users'[c] = Null
                           /\ c # last'.key => users'[c] = users[c]
                           /\ users[c] # Null
                                 => [users'[c][1] EXCEPT
                                        !.status = users[c][1].status]
                                       = users[c][1]
            /\ last'.op \in {"SetSubscriptionActive",
                             "UpdateSubscriptionLastChecked"}
                  => /\ UNCHANGED <<users, user_tokens, notifications>>
                     /\ RowsWithId(search_subscriptions, last'.key) = {}
                           => UNCHANGED search_subscriptions
                     /\ \A n \in search_subscriptions' :
                           \E r \in search_subscriptions : r.id = n.id
                     /\ \A r \in search_subscriptions :
                           \E n \in search_subscriptions' :
                              /\ r.id # last'.key => n = r
                              /\ IF last'.op = "SetSubscriptionActive"
                                 THEN [n EXCEPT !.is_active = r.is_active] = r
                                 ELSE [n EXCEPT !.last_checked_at =
                                                   r.last_checked_at] = r
            /\ last'.op = "UpdateNotificationMessageID"
                  => /\ UNCHANGED <<users, user_tokens, search_subscriptions>>
                     /\ {r \in notifications : r.id = last'.key} = {}
                           => UNCHANGED notifications
                     /\ \A n \in notifications' :
                           \E r \in notifications : r.id = n.id
                     /\ \A r \in notifications :
                           \E n \in notifications' :
                              /\ r.id # last'.key => n = r
                              /\ [n EXCEPT !.telegram_message_id =
                                              r.telegram_message_id] = r
            /\ (/\ last.op = "SetSubscriptionActive"
                /\ last.err = "nil"
                /\ last.arg = Some(FALSE)
                /\ last.prev # {}
                /\ last'.err = "nil")
                  => /\ last'.op = "GetActiveSubscriptions"
                           => \A k \in DOMAIN last'.val[1] :
                                 last'.val[1][k].ID # last.key
                     /\ (/\ last'.op = "GetSearchSubscriptionsByUser"
                         /\ \E r \in last.prev :
                               r.telegram_chat_id = last'.key)
                           => \E k \in DOMAIN last'.val[1] :
                                 /\ last'.val[1][k].ID = last.key
                                 /\ ~last'.val[1][k].IsActive]_vars

\* the seeded, active subscription was deactivated and the list of its chat
\* identity still shows it
C23_Witness ==
    /\ last.op = "GetSearchSubscriptionsByUser"
    /\ last.err = "nil"
    /\ last.key = 1
    /\ \E k \in DOMAIN last.val[1] :
          /\ last.val[1][k].ID = "sub-a"
          /\ ~last.val[1][k].IsActive
    /\ \E r \in notifications : r.id = "notif-a"

(***************************************************************************)
(* The two implementations side by side.  The same entity is written to an *)
(* empty store by the operation of repository.go and by the operation of   *)
(* interface.go, each followed by the read of what it stored, at the same  *)
(* clock reading and with the same next uuid.                              *)
(***************************************************************************)
ReadAfterWrite(i, op, e, now, uuid) ==
    CASE op = "UpsertUser" ->
           UserLookup(i,
              UpsertUserRows([c \in ChatIDs |-> Null],
                 UserRow(i, IF i = "repository"
                            THEN RepoUpsertUserEntity(e, now) ELSE e)),
              e.TelegramChatID)
      [] op = "StoreUserTokens" ->
           TokensLookup(i,
              [c \in ChatIDs |->
                 IF c = e.TelegramChatID
                 THEN Some(TokensRow(i, IF i = "repository"
                                        THEN RepoStoreUserTokensEntity(e, now)
                                        ELSE e))
                 ELSE Null],
              e.TelegramChatID)
      [] op = "CreateSearchSubscription" ->
           SubscriptionsResult(i,
              <<SubscriptionRow(i,
                   IF i = "repository"
                   THEN RepoCreateSearchSubscriptionEntity(e, now, uuid)
                   ELSE e)>>)
      [] op = "CreateNotification" ->
           CHOOSE res \in NotificationLookup(i,
                             InsertRow({}, NotificationRow(i,
                                IF i = "repository"
                                THEN RepoCreateNotificationEntity(e, now, uuid)
                                ELSE e)),
                             e.TelegramChatID, e.SubscriptionID, e.TripID) :
              TRUE

\* one entity goes through both implementations; val is what repository.go
\* reads back, prev what interface.go reads back
Compare(op, e) ==
    /\ nops < MaxOps
    /\ nops' = nops + 1
    /\ last' = [op |-> op, key |-> Null, arg |-> Some(e), ent |-> Null,
                err |-> "nil",
                val |-> Some(ReadAfterWrite("repository", op, e, Now,
                                            NewUuid)),
                prev |-> Some(ReadAfterWrite("interface", op, e, Now,
                                             NewUuid)),
                fail |-> FALSE, now |-> Now]
    /\ UNCHANGED <<impl, connVars, callVars, storeVars, clock, nextUuid, wk,
                   overlap, tx>>

InitEquiv ==
    /\ impl \in Impls
    /\ env = [endpoint |-> "set", database |-> "set"]
    /\ onceState = "done"
    /\ db = 1
    /\ initErr = "nil"
    /\ endpoint = "set"
    /\ database = "set"
    /\ initCount = 1
    /\ envReads = 2
    /\ openCount = 1
    /\ pc = [p \in Callers |-> "idle"]
    /\ observed = {}
    /\ users = [c \in ChatIDs |-> Null]
    /\ user_tokens = [c \in ChatIDs |-> Null]
    /\ search_subscriptions = {}
    /\ notifications = {}
    /\ clock = 0
    /\ nextUuid = 0
    /\ nops = 0
    /\ last = NoLast
    /\ wk = <<>>
    /\ overlap = FALSE
    /\ tx = NoTx

NextEquiv ==
    \/ Tick
    \/ \E u \in UserInputs : Compare("UpsertUser", u)
    \/ \E t \in TokensInputs : Compare("StoreUserTokens", t)
    \/ \E sub \in SubscriptionInputs : Compare("CreateSearchSubscription", sub)
    \/ \E n \in NotificationInputs : Compare("CreateNotification", n)

SpecEquiv == InitEquiv /\ [][NextEquiv]_vars

(***************************************************************************)
(* C24: the operation of repository.go and the operation of interface.go,  *)
(* given the same entity on the same store, return the same kind of result *)
(* and store the same row: what is read back is the same in both, also for *)
(* an entity with an empty id, is_active = false, a zero created_at or a   *)
(* stale updated_at.                                                       *)
(***************************************************************************)
C24_ImplementationsEquivalent ==
    last.op \in {"UpsertUser", "StoreUserTokens", "CreateSearchSubscription",
                 "CreateNotification"}
       => last.val = last.prev

====
